---- MODULE Spec2Model ----
(***************************************************************************)
(* A model of the reader core of satpy (satpy/readers/__init__.py):        *)
(* the granule filter, the file type classifier, the multi-granule reader, *)
(* the dataset registry (DatasetDict) with its wavelength matching, and    *)
(* the reader finder called with filenames.                                *)
(*                                                                         *)
(* Python values are modelled as follows.                                  *)
(*   None            the empty sequence <<>>; an optional value v is <<v>>  *)
(*   a list          a sequence                                            *)
(*   a raised error  a result record whose status names the exception      *)
(*   a datetime      a natural number                                      *)
(*   a polygon       a set of cells; two polygons intersect when they      *)
(*                   share a cell                                          *)
(***************************************************************************)
EXTENDS Integers, Sequences, FiniteSets, TLC

VARIABLES
    reader,     \* the ConfigBasedReader under construction or in use (self)
    datasets,   \* the DatasetDict: the list of its items, in insertion order
    finder,     \* the ReaderFinder and the reader configurations it finds
    call        \* the last operation applied: its name, arguments and result

vars == <<reader, datasets, finder, call>>

----------------------------------------------------------------------------
(* Bounds of the model *)

\* the longest list of per-file readers handed to the granule filter
MaxGranules == 2
\* the latest time stamp of a granule or of a request
MaxTime == 2
\* the longest list of filenames handed to the file type classifier
MaxFiles == 2
\* the longest list of filenames a reader is constructed from
MaxReaderFiles == 2
\* the most rows and the most columns of a granule's array
MaxRows == 2
MaxCols == 2
\* the largest wavelength
MaxWavelength == 2

----------------------------------------------------------------------------
(* Python values *)

None == <<>>

Some(v) == <<v>>

Val(o) == o[1]

Raise(exc) == [status |-> exc, value |-> None]

Return(v) == [status |-> "ok", value |-> v]

NoCall == [op |-> "none", arg |-> None, ret |-> Return(None)]

Times == 0 .. MaxTime

OptTimes == {None} \cup {Some(t) : t \in Times}

\* the polygons of the model: ring coordinates of a granule, or an area
Polygons == {{1}, {2}}

\* a reader after Reader.__init__: the configuration is loaded, the filter
\* options and the filenames are stored, and no file is opened yet
NewReader(file_types, filenames, start_time, end_time, area) ==
    [file_types |-> file_types, filenames |-> filenames,
     start_time |-> start_time, end_time |-> end_time, area |-> area,
     file_readers |-> <<>>, state |-> "new"]

----------------------------------------------------------------------------
(* DatasetDict._wl_match *)

(* A wavelength is modelled with its Python type: a number is an int or a  *)
(* float, an interval a tuple or a list, and None has the type NoneType.    *)
(* Its value v is a sequence: <<n>> for the number n, the elements of a     *)
(* tuple or list, <<>> for None.  Comparisons are those of Python 3, where  *)
(* ordering a number against a sequence or None raises TypeError.          *)

Wl(type, v) == [type |-> type, v |-> v]

IsNumber(x) == x.type \in {"int", "float"}

\* isinstance(x, (list, tuple)) and len(x) == 3
IsInterval(x) == x.type \in {"list", "tuple"} /\ Len(x.v) = 3

\* interval[0] <= number <= interval[2]
Contains(interval, number) ==
    IF IsNumber(number)
    THEN Return(interval.v[1] <= number.v[1] /\ number.v[1] <= interval.v[3])
    ELSE Raise("TypeError")

\* mutant of _wl_match: two intervals are compared by the second's centre
_wl_match_by_centre(a, b) ==
    IF a.type = b.type /\ ~IsInterval(a) THEN Return(a.v = b.v)
    ELSE IF IsInterval(a)
         THEN IF IsInterval(b) THEN Return(a.v[1] <= b.v[2] /\ b.v[2] <= a.v[3])
              ELSE Contains(a, b)
    ELSE IF IsInterval(b) THEN Contains(b, a)
    ELSE Raise("ValueError")

_wl_match(a, b) ==
    IF a.type = b.type THEN Return(a.v = b.v)
    ELSE IF IsInterval(a) THEN Contains(a, b)
    ELSE IF IsInterval(b) THEN Contains(b, a)
    ELSE Raise("ValueError")

----------------------------------------------------------------------------
(* ConfigBasedReader._get_swathsegment *)

\* poly.intersection(contour_poly) is not None
Intersects(ring, contour_poly) == ring \cap contour_poly # {}

\* search for a single granule using the start time
SingleTimeMatch(self, file_reader) ==
    /\ file_reader.start_time <= Val(self.start_time)
    /\ Val(self.start_time) <= file_reader.end_time

\* mutant of IntervalMatch: the boundaries of the interval are excluded
IntervalMatchExclusive(self, file_reader) ==
    \/ /\ Val(self.start_time) < file_reader.start_time
       /\ file_reader.start_time < Val(self.end_time)
    \/ /\ Val(self.start_time) < file_reader.end_time
       /\ file_reader.end_time < Val(self.end_time)

\* mutant of IntervalMatch: a granule is kept when it overlaps the interval
IntervalMatchOverlap(self, file_reader) ==
    /\ file_reader.start_time <= Val(self.end_time)
    /\ Val(self.start_time) <= file_reader.end_time

\* search for multiple granules: the granule's start time or its end time
\* is inside the interval
IntervalMatch(self, file_reader) ==
    \/ /\ Val(self.start_time) <= file_reader.start_time
       /\ file_reader.start_time <= Val(self.end_time)
    \/ /\ Val(self.start_time) <= file_reader.end_time
       /\ file_reader.end_time <= Val(self.end_time)

\* the time filters of one pass of the loop, when no area is set
TimeSelect(self, file_reader) ==
    IF self.start_time = None THEN TRUE
    ELSE IF self.end_time = None THEN SingleTimeMatch(self, file_reader)
    ELSE IntervalMatch(self, file_reader)

\* mutant of SegmentLoop: a granule without ring coordinates falls back to
\* the time filters instead of raising
RECURSIVE SegmentLoopFallback(_, _, _)
SegmentLoopFallback(self, file_readers, segment_readers) ==
    IF file_readers = <<>> THEN Return(segment_readers)
    ELSE LET file_reader == Head(file_readers)
             rest == Tail(file_readers)
         IN  IF self.area # None /\ file_reader.ring_lonlats # None
             THEN IF Intersects(Val(file_reader.ring_lonlats), Val(self.area))
                  THEN SegmentLoopFallback(self, rest, Append(segment_readers, file_reader))
                  ELSE SegmentLoopFallback(self, rest, segment_readers)
             ELSE IF TimeSelect(self, file_reader)
                  THEN SegmentLoopFallback(self, rest, Append(segment_readers, file_reader))
                  ELSE SegmentLoopFallback(self, rest, segment_readers)

\* the loop over the per-file readers: the readers selected so far are
\* segment_readers; the result is the list selected, or the error raised
RECURSIVE SegmentLoop(_, _, _)
SegmentLoop(self, file_readers, segment_readers) ==
    IF file_readers = <<>> THEN Return(segment_readers)
    ELSE LET file_reader == Head(file_readers)
             rest == Tail(file_readers)
         IN  IF self.area # None
             THEN IF file_reader.ring_lonlats = None
                  THEN Raise("ValueError")
                  ELSE IF Intersects(Val(file_reader.ring_lonlats), Val(self.area))
                       THEN SegmentLoop(self, rest, Append(segment_readers, file_reader))
                       ELSE SegmentLoop(self, rest, segment_readers)
             ELSE IF TimeSelect(self, file_reader)
                  THEN SegmentLoop(self, rest, Append(segment_readers, file_reader))
                  ELSE SegmentLoop(self, rest, segment_readers)

\* mutant of InsertByStart: x goes before the elements of equal start time
InsertBeforeEqual(s, x) ==
    LET before == SelectSeq(s, LAMBDA y : y.start_time < x.start_time)
        after == SelectSeq(s, LAMBDA y : y.start_time >= x.start_time)
    IN  before \o <<x>> \o after

\* x inserted into the sorted list s after every element whose start time is
\* not greater than its own
InsertByStart(s, x) ==
    LET before == SelectSeq(s, LAMBDA y : y.start_time <= x.start_time)
        after == SelectSeq(s, LAMBDA y : y.start_time > x.start_time)
    IN  before \o <<x>> \o after

\* sorted(s, key=lambda x: x.start_time): Python's sort is stable
RECURSIVE SortedByStartTime(_)
SortedByStartTime(s) ==
    IF s = <<>> THEN <<>>
    ELSE InsertByStart(SortedByStartTime(SubSeq(s, 1, Len(s) - 1)), s[Len(s)])

_get_swathsegment(self, file_readers) ==
    LET sel == SegmentLoop(self, file_readers, <<>>)
    IN  IF sel.status = "ok" THEN Return(SortedByStartTime(sel.value)) ELSE sel

----------------------------------------------------------------------------
(* ConfigBasedReader.identify_file_types *)

(* A filename is a sequence of characters and a file pattern a sequence of  *)
(* characters and of fields "{}".  A file is a record: its name and what a  *)
(* per-file reader parses from it (times, platform, sensor, shape).         *)

\* trollsift's globify: every field of the pattern becomes a wildcard
globify(file_pattern) ==
    [i \in 1 .. Len(file_pattern) |->
        IF file_pattern[i] = "{}" THEN "*" ELSE file_pattern[i]]

\* fnmatch(fn, pat): "*" matches any run of characters, "?" one character
RECURSIVE fnmatch(_, _)
fnmatch(fn, pat) ==
    IF pat = <<>> THEN fn = <<>>
    ELSE IF Head(pat) = "*"
         THEN fnmatch(fn, Tail(pat)) \/ (fn # <<>> /\ fnmatch(Tail(fn), pat))
    ELSE IF Head(pat) = "?"
         THEN fn # <<>> /\ fnmatch(Tail(fn), Tail(pat))
    ELSE fn # <<>> /\ Head(fn) = Head(pat) /\ fnmatch(Tail(fn), Tail(pat))

\* fnmatch(fn, "*" + globify(file_pattern)): the wildcard in front stands
\* for the path
PatternMatches(fn, file_pattern) == fnmatch(fn, <<"*">> \o globify(file_pattern))

\* file_reader_class(file_type_name, fn, self.file_keys, **file_type_info):
\* the per-file reader of file fn
FileReader(file_type_name, fn) ==
    [file_type |-> file_type_name, filename |-> fn.name,
     start_time |-> fn.start_time, end_time |-> fn.end_time,
     ring_lonlats |-> fn.ring_lonlats, platform_name |-> fn.platform_name,
     sensor_name |-> fn.sensor_name, shape |-> fn.shape]

\* the loop over the patterns of one file type: the readers of the files
\* that match a pattern, and the files left
RECURSIVE PatternLoop(_, _, _, _)
PatternLoop(file_type_name, file_patterns, remaining_filenames, matched) ==
    IF file_patterns = <<>>
    THEN [matched |-> matched, remaining |-> remaining_filenames]
    ELSE LET hit(fn) == PatternMatches(fn.name, Head(file_patterns))
             miss(fn) == ~hit(fn)
             tmp_matching == SelectSeq(remaining_filenames, hit)
             tmp_remaining == SelectSeq(remaining_filenames, miss)
         IN  PatternLoop(file_type_name, Tail(file_patterns), tmp_remaining,
                         matched \o [i \in 1 .. Len(tmp_matching) |->
                                        FileReader(file_type_name, tmp_matching[i])])

\* mutant of TypeLoop: a file that matches stays in the pool, so that a
\* later file type can claim it again
RECURSIVE TypeLoopKeepsPool(_, _, _)
TypeLoopKeepsPool(types, remaining_filenames, file_types) ==
    IF types = <<>>
    THEN [file_types |-> file_types, unidentified |-> remaining_filenames]
    ELSE LET got == PatternLoop(Head(types).name, Head(types).file_patterns,
                                remaining_filenames, <<>>)
             kept == IF got.matched = <<>> THEN file_types
                     ELSE Append(file_types, [name |-> Head(types).name,
                                              readers |-> got.matched])
         IN  TypeLoopKeepsPool(Tail(types), remaining_filenames, kept)

\* the loop over the configured file types, in the order of the
\* configuration: file_types is the dictionary built so far, as the list of
\* its items; a file type without a match is deleted from it, and the loop
\* ends early when no filename is left
RECURSIVE TypeLoop(_, _, _)
TypeLoop(types, remaining_filenames, file_types) ==
    IF types = <<>>
    THEN [file_types |-> file_types, unidentified |-> remaining_filenames]
    ELSE LET got == PatternLoop(Head(types).name, Head(types).file_patterns,
                                remaining_filenames, <<>>)
             kept == IF got.matched = <<>> THEN file_types
                     ELSE Append(file_types, [name |-> Head(types).name,
                                              readers |-> got.matched])
         IN  IF got.remaining = <<>>
             THEN [file_types |-> kept, unidentified |-> <<>>]
             ELSE TypeLoop(Tail(types), got.remaining, kept)

\* the dictionary returned, and the filenames logged as unidentified
identify_file_types(self, filenames) == TypeLoop(self.file_types, filenames, <<>>)

----------------------------------------------------------------------------
(* ConfigBasedReader.__init__ and MultiFileReader *)

MultiFileReader(file_type, file_readers) ==
    [file_type |-> file_type, file_readers |-> file_readers]

\* the loop of __init__ over the items of the dictionary identify_file_types
\* returned: the filtered list file_type_files is checked, and the
\* MultiFileReader is built from file_types[file_type_name], the list as
\* identified
RECURSIVE InitLoop(_, _, _, _)
InitLoop(self, items, num_files, file_readers) ==
    IF items = <<>> THEN [status |-> "ok", file_readers |-> file_readers]
    ELSE LET file_type_name == Head(items).name
             file_type_files == _get_swathsegment(self, Head(items).readers)
         IN  IF file_type_files.status # "ok"
             THEN [status |-> file_type_files.status, file_readers |-> file_readers]
             ELSE IF file_type_files.value = <<>>
             THEN [status |-> "IOError", file_readers |-> file_readers]
             ELSE IF num_files # 0 /\ Len(file_type_files.value) # num_files
             THEN [status |-> "IOError", file_readers |-> file_readers]
             ELSE InitLoop(self, Tail(items), Len(file_type_files.value),
                      file_readers @@
                      (file_type_name :> MultiFileReader(file_type_name,
                                                         Head(items).readers)))

\* ConfigBasedReader.__init__ from the identification of the files on (a
\* default_file_reader is given): the status it ends with and the
\* file_readers it has stored by then
__init__(self) ==
    LET file_types == identify_file_types(self, self.filenames).file_types
    IN  IF file_types = <<>>
        THEN [status |-> "ValueError", file_readers |-> self.file_readers]
        ELSE InitLoop(self, file_types, 0, self.file_readers)

\* MultiFileReader.start_time
mfr_start_time(mfr) == mfr.file_readers[1].start_time

\* MultiFileReader.end_time
mfr_end_time(mfr) == mfr.file_readers[Len(mfr.file_readers)].end_time

\* MultiFileReader.platform_name
platform_name(mfr) == mfr.file_readers[1].platform_name

\* MultiFileReader.sensor_name
sensor_name(mfr) == mfr.file_readers[1].sensor_name

RECURSIVE SumRows(_)
SumRows(granule_shapes) ==
    IF granule_shapes = <<>> THEN 0
    ELSE granule_shapes[1][1] + SumRows(Tail(granule_shapes))

\* file_reader.get_swath_data(item, data_out=..., mask_out=...), an abstract
\* method: the per-file reader writes its rows into the slice it is given.
\* When its own trailing dimensions are not those of the slice, a per-file
\* reader that checks the buffer raises, and one that does not fills it.
GranuleWrite(file_reader, buffer, idx, trailing, checks) ==
    IF checks /\ Tail(file_reader.shape) # trailing
    THEN Raise("ValueError")
    ELSE Return([k \in 1 .. Len(buffer) |->
                    IF idx < k /\ k <= idx + file_reader.shape[1]
                    THEN Some(<<file_reader.filename, k - idx>>)
                    ELSE buffer[k]])

\* mutant of FillLoop: idx is not advanced by the rows of the granule
RECURSIVE FillLoopNoAdvance(_, _, _, _, _)
FillLoopNoAdvance(file_readers, buffer, idx, trailing, checks) ==
    IF file_readers = <<>> THEN Return(buffer)
    ELSE LET written == GranuleWrite(Head(file_readers), buffer, idx, trailing, checks)
         IN  IF written.status # "ok" THEN written
             ELSE FillLoopNoAdvance(Tail(file_readers), written.value, idx + 1,
                                    trailing, checks)

\* the loop that hands every per-file reader its slice
\* [idx, idx + granule_shape[0]) of the buffers
RECURSIVE FillLoop(_, _, _, _, _)
FillLoop(file_readers, buffer, idx, trailing, checks) ==
    IF file_readers = <<>> THEN Return(buffer)
    ELSE LET written == GranuleWrite(Head(file_readers), buffer, idx, trailing, checks)
         IN  IF written.status # "ok" THEN written
             ELSE FillLoop(Tail(file_readers), written.value,
                           idx + Head(file_readers).shape[1], trailing, checks)

\* MultiFileReader.get_swath_data(item) without a filename.  A row of the
\* data and of the mask buffer is modelled by the granule and the granule's
\* row it was written from; a row never written is None.
get_swath_data(mfr, checks) ==
    LET granule_shapes == [i \in 1 .. Len(mfr.file_readers) |->
                              mfr.file_readers[i].shape]
        num_rows == SumRows(granule_shapes)
        output_shape == IF Len(granule_shapes[1]) < 2 THEN <<num_rows>>
                        ELSE <<num_rows, granule_shapes[1][Len(granule_shapes[1])]>>
        empty == [k \in 1 .. num_rows |-> None]
        filled == FillLoop(mfr.file_readers, empty, 0, Tail(output_shape), checks)
    IN  IF filled.status # "ok" THEN filled
        ELSE Return([shape |-> output_shape, data |-> filled.value,
                     mask |-> filled.value])

----------------------------------------------------------------------------
(* The granule filter applied to a list of per-file readers *)

\* the per-file readers of a list of n granules; the i-th reader of the
\* list is named i
GranuleLists(n) ==
    [1 .. n -> {g \in [start_time : Times, end_time : Times,
                       ring_lonlats : {None} \cup {Some(p) : p \in Polygons}] :
                    g.start_time <= g.end_time}]

Named(gs) ==
    [i \in 1 .. Len(gs) |->
        [filename |-> i, start_time |-> gs[i].start_time,
         end_time |-> gs[i].end_time, ring_lonlats |-> gs[i].ring_lonlats]]

\* the granules (10,20), (15,25), (30,40)
ExampleGranules ==
    <<[filename |-> 1, start_time |-> 10, end_time |-> 20, ring_lonlats |-> None],
      [filename |-> 2, start_time |-> 15, end_time |-> 25, ring_lonlats |-> None],
      [filename |-> 3, start_time |-> 30, end_time |-> 40, ring_lonlats |-> None]>>

InitFilter ==
    /\ \/ \E st \in OptTimes, et \in OptTimes, a \in {None, Some({1})} :
              reader = NewReader(<<>>, <<>>, st, et, a)
       \/ reader = NewReader(<<>>, <<>>, Some(12), Some(18), None)
    /\ datasets = <<>>
    /\ finder = None
    /\ call = NoCall

GetSwathSegment ==
    /\ call.op = "none"
    /\ \E n \in 0 .. MaxGranules : \E gs \in GranuleLists(n) \cup {ExampleGranules} :
          call' = [op |-> "_get_swathsegment", arg |-> Named(gs),
                   ret |-> _get_swathsegment(reader, Named(gs))]
    /\ UNCHANGED <<reader, datasets, finder>>

NextFilter == GetSwathSegment

SpecFilter == InitFilter /\ [][NextFilter]_vars

----------------------------------------------------------------------------
(* Claims about the granule filter, checked under SpecFilter *)

Filtered == call.op = "_get_swathsegment"

\* the positions of the input list whose reader is in the list returned
KeptPositions ==
    {i \in 1 .. Len(call.arg) :
        \E j \in 1 .. Len(call.ret.value) : call.ret.value[j] = call.arg[i]}

IntervalMode ==
    /\ reader.area = None
    /\ reader.start_time # None
    /\ reader.end_time # None

ExampleFiltered ==
    /\ Filtered
    /\ call.arg = ExampleGranules
    /\ reader = NewReader(<<>>, <<>>, Some(12), Some(18), None)

\* C2, as claimed: for the granules (10,20), (15,25), (30,40) and the window
\* 12..18 without an area, the filter returns exactly the first two
\* granules, sorted by start time; the third is dropped.
C2_ExampleKeepsFirstTwo ==
    ExampleFiltered
        => call.ret = Return(<<ExampleGranules[1], ExampleGranules[2]>>)

\* C2, as amended: for these granules and this window the filter returns
\* exactly the second granule (15,25); the first, whose start and end are
\* both outside the window, and the third are dropped.
C2_ExampleKeepsSecond ==
    ExampleFiltered => call.ret = Return(<<ExampleGranules[2]>>)

\* C2 witness: the filter was applied to the three granules with the window
\* 12..18 and returned a list that holds the granule (15,25).
C2_Witness ==
    /\ ExampleFiltered
    /\ call.ret.status = "ok"
    /\ \E j \in 1 .. Len(call.ret.value) :
          call.ret.value[j].start_time = 15 /\ call.ret.value[j].end_time = 25

\* C3: in interval mode (start_time and end_time set, no area) a granule is
\* kept if and only if its start time or its end time lies in
\* [start_time, end_time], boundaries included.
C3_IntervalKeepsIff ==
    (Filtered /\ IntervalMode) =>
        /\ call.ret.status = "ok"
        /\ Len(call.ret.value) = Cardinality(KeptPositions)
        /\ \A i \in 1 .. Len(call.arg) :
              i \in KeptPositions <=>
                  LET s == call.arg[i].start_time
                      e == call.arg[i].end_time
                      lo == reader.start_time[1]
                      hi == reader.end_time[1]
                  IN  (lo <= s /\ s <= hi) \/ (lo <= e /\ e <= hi)

\* C3 witness: an interval request that keeps one granule only because its
\* end time equals start_time and drops another one.
C3_Witness ==
    /\ Filtered
    /\ IntervalMode
    /\ Len(call.arg) = 2
    /\ KeptPositions = {1}
    /\ call.arg[1].end_time = reader.start_time[1]
    /\ call.arg[1].start_time < reader.start_time[1]

\* C4: in every filter mode the list returned is in non-decreasing order of
\* start time, and kept granules of equal start time are in their input
\* order (the reader at input position i is named i).
C4_SortedStable ==
    (Filtered /\ call.ret.status = "ok") =>
        \A j, k \in 1 .. Len(call.ret.value) :
            j < k =>
                \/ call.ret.value[j].start_time < call.ret.value[k].start_time
                \/ /\ call.ret.value[j].start_time = call.ret.value[k].start_time
                   /\ call.ret.value[j].filename < call.ret.value[k].filename

\* C4 witness: two kept granules of equal start time.
C4_Witness ==
    /\ Filtered
    /\ call.ret.status = "ok"
    /\ Len(call.ret.value) = 2
    /\ call.ret.value[1].start_time = call.ret.value[2].start_time
    /\ call.ret.value[1].end_time > call.ret.value[2].end_time

\* C5: with an area configured, a per-file reader of the list that exposes no
\* ring coordinates makes the filter raise, whatever start_time and end_time
\* are; no list is returned.
C5_AreaWithoutRingRaises ==
    (/\ Filtered
     /\ reader.area # None
     /\ \E i \in 1 .. Len(call.arg) : call.arg[i].ring_lonlats = None)
        => call.ret = Raise("ValueError")

\* C5 witness: an area and a time window are set, the first granule's ring
\* intersects the area, its times match the window, and the second granule
\* has no ring coordinates.
C5_Witness ==
    /\ Filtered
    /\ reader.area # None
    /\ reader.start_time # None
    /\ reader.end_time # None
    /\ Len(call.arg) = 2
    /\ call.arg[1].ring_lonlats = reader.area
    /\ call.arg[1].start_time = reader.start_time[1]
    /\ call.arg[2].ring_lonlats = None
    /\ call.arg[2].start_time = reader.start_time[1]
    /\ call.ret.status = "ValueError"

----------------------------------------------------------------------------
(* The file type classifier applied to a list of filenames *)

\* a file: its name and the header a per-file reader parses from it
File(name, start_time, end_time, shape) ==
    [name |-> name, start_time |-> start_time, end_time |-> end_time,
     ring_lonlats |-> None, platform_name |-> <<"platform", name>>,
     sensor_name |-> <<"sensor", name>>, shape |-> shape]

\* a file of which only the name matters
Named0(name) == File(name, 0, 0, <<1>>)

\* the filenames of the classifier's model: two characters each
ClassifyNames == {<<c, d>> : c \in {"A", "B", "C"}, d \in {"A", "B", "1"}}

\* the patterns A*, B{field} and ?1
PatA == <<"A", "*">>

PatB == <<"B", "{}">>

Pat1 == <<"?", "1">>

TypeA(file_patterns) == [name |-> "A", file_patterns |-> file_patterns]

TypeB(file_patterns) == [name |-> "B", file_patterns |-> file_patterns]

\* the configurations of the classifier's model: one or two file types of
\* one or two patterns each, in either order
ClassifyConfigs ==
    LET as == {TypeA(<<PatA>>), TypeA(<<PatA, Pat1>>)}
        bs == {TypeB(<<PatB>>), TypeB(<<Pat1, PatB>>)}
    IN  {<<a>> : a \in as}
            \cup {<<a, b>> : a \in as, b \in bs}
            \cup {<<b, a>> : a \in as, b \in bs}

\* the patterns A*.dat and B*.dat with the files A1.dat, B1.dat, C1.dat
ExampleConfig == <<TypeA(<<PatA>>), TypeB(<<PatB>>)>>

ExampleFiles == <<Named0(<<"A", "1">>), Named0(<<"B", "1">>), Named0(<<"C", "1">>)>>

InitClassify ==
    /\ \/ \E cfg \in ClassifyConfigs, n \in 0 .. MaxFiles :
              \E names \in [1 .. n -> ClassifyNames] :
                  reader = NewReader(cfg, [i \in 1 .. n |-> Named0(names[i])],
                                     None, None, None)
       \/ reader = NewReader(ExampleConfig, ExampleFiles, None, None, None)
    /\ datasets = <<>>
    /\ finder = None
    /\ call = NoCall

IdentifyFileTypes ==
    /\ call.op = "none"
    /\ call' = [op |-> "identify_file_types", arg |-> reader.filenames,
                ret |-> Return(identify_file_types(reader, reader.filenames))]
    /\ UNCHANGED <<reader, datasets, finder>>

NextClassify == IdentifyFileTypes

SpecClassify == InitClassify /\ [][NextClassify]_vars

----------------------------------------------------------------------------
(* Claims about the file type classifier, checked under SpecClassify *)

Classified == call.op = "identify_file_types"

\* the number of positions of sequence s that hold a value of set S
Count(s, S) == Cardinality({i \in 1 .. Len(s) : s[i] \in S})

\* the readers the result holds for the file called name: pairs of a
\* bucket and a position in it
ReadersOf(name) ==
    {<<b, j>> \in (1 .. Len(call.ret.value.file_types)) \X (1 .. Len(call.arg)) :
        /\ j <= Len(call.ret.value.file_types[b].readers)
        /\ call.ret.value.file_types[b].readers[j].filename = name}

\* the configured file types with a pattern that matches name, by position
MatchingTypes(name) ==
    {t \in 1 .. Len(reader.file_types) :
        \E p \in 1 .. Len(reader.file_types[t].file_patterns) :
            PatternMatches(name, reader.file_types[t].file_patterns[p])}

FirstMatchingType(name) ==
    reader.file_types[CHOOSE t \in MatchingTypes(name) :
                          \A u \in MatchingTypes(name) : t <= u].name

\* C9: every input filename ends up in exactly one place: as one per-file
\* reader in the bucket of the first file type, in configuration order, with
\* a pattern that matches it, or in the unidentified remainder, which does
\* not raise; no filename has readers in two buckets and a file type without
\* a match has no key in the result.
C9_ClassifiedOnce ==
    Classified =>
        /\ call.ret.status = "ok"
        /\ \A i \in 1 .. Len(call.arg) :
              LET name == call.arg[i].name
                  occurrences == Count(call.arg, {call.arg[i]})
                  unidentified == Count(call.ret.value.unidentified,
                                        {call.arg[i]})
              IN  /\ Cardinality(ReadersOf(name)) + unidentified = occurrences
                  /\ IF MatchingTypes(name) = {}
                     THEN ReadersOf(name) = {}
                     ELSE /\ unidentified = 0
                          /\ \A r \in ReadersOf(name) :
                                call.ret.value.file_types[r[1]].name
                                    = FirstMatchingType(name)
        /\ \A b \in 1 .. Len(call.ret.value.file_types) :
              /\ call.ret.value.file_types[b].readers # <<>>
              /\ \A j \in 1 .. Len(call.ret.value.file_types[b].readers) :
                    \E i \in 1 .. Len(call.arg) :
                        call.ret.value.file_types[b].readers[j]
                            = FileReader(call.ret.value.file_types[b].name, call.arg[i])
              /\ \A c \in 1 .. Len(call.ret.value.file_types) :
                    call.ret.value.file_types[b].name
                        = call.ret.value.file_types[c].name => b = c
        /\ \A k \in 1 .. Len(call.ret.value.unidentified) :
              \E i \in 1 .. Len(call.arg) :
                  call.ret.value.unidentified[k] = call.arg[i]

\* C9 witness: the patterns A*.dat and B*.dat with the files A1.dat, B1.dat
\* and C1.dat give the buckets A: [A1.dat] and B: [B1.dat], and C1.dat is
\* unidentified.
C9_Witness ==
    /\ Classified
    /\ reader.file_types = ExampleConfig
    /\ call.arg = ExampleFiles
    /\ call.ret.value.file_types
           = <<[name |-> "A", readers |-> <<FileReader("A", ExampleFiles[1])>>],
               [name |-> "B", readers |-> <<FileReader("B", ExampleFiles[2])>>]>>
    /\ call.ret.value.unidentified = <<ExampleFiles[3]>>

----------------------------------------------------------------------------
(* The construction of a ConfigBasedReader and the use of its              *)
(* MultiFileReaders                                                        *)

ReaderNames == {<<"A", "1">>, <<"A", "2">>, <<"B", "1">>}

ReaderConfigs == {<<TypeA(<<PatA>>)>>, <<TypeA(<<PatA>>), TypeB(<<PatB>>)>>}

\* the files a reader of the model is constructed from: n files of
\* different names, in any order, each with its own times
ReaderFiles(n) ==
    {fs \in [1 .. n -> {File(name, s, e, <<2, 1>>) :
                           name \in ReaderNames, s \in Times, e \in Times}] :
        /\ \A i \in 1 .. n : fs[i].start_time <= fs[i].end_time
        /\ \A i, j \in 1 .. n : fs[i].name = fs[j].name => i = j}

\* two granules of one file type covering 00:00-00:10 and 00:10-00:20, in
\* units of five minutes
Earlier == File(<<"A", "1">>, 0, 2, <<2, 1>>)

Later == File(<<"A", "2">>, 2, 4, <<2, 1>>)

\* the reader of the two granules with the window 00:05-00:25
ExampleReader(filenames) ==
    NewReader(<<TypeA(<<PatA>>)>>, filenames, Some(1), Some(5), None)

\* two file types: the granules 00:05-00:05 and 00:00-00:00 of A, the
\* granule 00:05-00:05 of B, and the window 00:05-00:05, in which A has one
\* granule
UnevenReader ==
    NewReader(<<TypeA(<<PatA>>), TypeB(<<PatB>>)>>,
              <<File(<<"A", "1">>, 1, 1, <<2, 1>>),
                File(<<"A", "2">>, 0, 0, <<2, 1>>),
                File(<<"B", "1">>, 1, 1, <<2, 1>>)>>,
              Some(1), Some(1), None)

InitReader ==
    /\ \/ \E cfg \in ReaderConfigs, n \in 0 .. MaxReaderFiles,
             st \in OptTimes, et \in OptTimes, a \in {None, Some({1})} :
              \E fs \in ReaderFiles(n) : reader = NewReader(cfg, fs, st, et, a)
       \/ reader = ExampleReader(<<Earlier, Later>>)
       \/ reader = ExampleReader(<<Later, Earlier>>)
       \/ reader = UnevenReader
    /\ datasets = <<>>
    /\ finder = None
    /\ call = NoCall

\* ConfigBasedReader.__init__
Construct ==
    /\ reader.state = "new"
    /\ LET done == __init__(reader)
       IN  /\ reader' = [reader EXCEPT
                            !.file_readers = done.file_readers,
                            !.state = IF done.status = "ok" THEN "ready" ELSE "failed"]
           /\ call' = [op |-> "__init__", arg |-> None,
                       ret |-> IF done.status = "ok" THEN Return(None)
                               ELSE Raise(done.status)]
    /\ UNCHANGED <<datasets, finder>>

\* MultiFileReader.get_swath_data of the reader of one file type; checks
\* tells whether the per-file readers check the buffer they are given
GetSwathData ==
    /\ reader.state = "ready"
    /\ \E file_type \in DOMAIN reader.file_readers, checks \in BOOLEAN :
          call' = [op |-> "get_swath_data", arg |-> <<file_type, checks>>,
                   ret |-> get_swath_data(reader.file_readers[file_type], checks)]
    /\ UNCHANGED <<reader, datasets, finder>>

\* MultiFileReader.platform_name of the reader of one file type
PlatformName ==
    /\ reader.state = "ready"
    /\ \E file_type \in DOMAIN reader.file_readers :
          call' = [op |-> "platform_name", arg |-> file_type,
                   ret |-> Return(platform_name(reader.file_readers[file_type]))]
    /\ UNCHANGED <<reader, datasets, finder>>

\* MultiFileReader.sensor_name of the reader of one file type
SensorName ==
    /\ reader.state = "ready"
    /\ \E file_type \in DOMAIN reader.file_readers :
          call' = [op |-> "sensor_name", arg |-> file_type,
                   ret |-> Return(sensor_name(reader.file_readers[file_type]))]
    /\ UNCHANGED <<reader, datasets, finder>>

\* MultiFileReader.start_time of the reader of one file type
StartTime ==
    /\ reader.state = "ready"
    /\ \E file_type \in DOMAIN reader.file_readers :
          call' = [op |-> "start_time", arg |-> file_type,
                   ret |-> Return(mfr_start_time(reader.file_readers[file_type]))]
    /\ UNCHANGED <<reader, datasets, finder>>

\* MultiFileReader.end_time of the reader of one file type
EndTime ==
    /\ reader.state = "ready"
    /\ \E file_type \in DOMAIN reader.file_readers :
          call' = [op |-> "end_time", arg |-> file_type,
                   ret |-> Return(mfr_end_time(reader.file_readers[file_type]))]
    /\ UNCHANGED <<reader, datasets, finder>>

NextReader ==
    \/ Construct
    \/ GetSwathData
    \/ PlatformName
    \/ SensorName
    \/ StartTime
    \/ EndTime

SpecReader == InitReader /\ [][NextReader]_vars

----------------------------------------------------------------------------
(* Claims about the construction, checked under SpecReader *)

\* the per-file readers identify_file_types puts in the bucket of file_type
BucketOf(file_type) ==
    LET file_types == identify_file_types(reader, reader.filenames).file_types
        b == CHOOSE b \in 1 .. Len(file_types) : file_types[b].name = file_type
    IN  file_types[b].readers

\* C1: after the construction succeeds, the MultiFileReader of every file
\* type holds exactly the per-file readers the granule filter kept for the
\* reader's start_time, end_time and area, in ascending order of start time,
\* whatever the order of the filenames.
C1_HoldsFilteredGranules ==
    reader.state = "ready" =>
        \A file_type \in DOMAIN reader.file_readers :
            reader.file_readers[file_type].file_readers
                = _get_swathsegment(reader, BucketOf(file_type)).value

ExampleScenario ==
    /\ reader.file_types = <<TypeA(<<PatA>>)>>
    /\ reader.filenames \in {<<Earlier, Later>>, <<Later, Earlier>>}
    /\ reader.start_time = Some(1)
    /\ reader.end_time = Some(5)
    /\ reader.area = None

\* C8: for the two granules 00:00-00:10 and 00:10-00:20 of one file type and
\* the window 00:05-00:25, in either filename order, the construction
\* succeeds, the rows of the swath are those of the earlier granule followed
\* by those of the later one, and platform_name and sensor_name are those of
\* the earlier granule.
C8_EndToEnd ==
    ExampleScenario =>
        /\ reader.state # "failed"
        /\ call.op = "get_swath_data" =>
              /\ call.ret.status = "ok"
              /\ call.ret.value.data
                     = <<Some(<<Earlier.name, 1>>), Some(<<Earlier.name, 2>>),
                         Some(<<Later.name, 1>>), Some(<<Later.name, 2>>)>>
        /\ call.op = "platform_name" => call.ret.value = Earlier.platform_name
        /\ call.op = "sensor_name" => call.ret.value = Earlier.sensor_name

----------------------------------------------------------------------------
(* MultiFileReader.get_swath_data over a list of granules *)

\* the native shapes of a granule's array: one or two dimensions
Shapes ==
    {<<r>> : r \in 0 .. MaxRows}
        \cup {<<r, c>> : r \in 0 .. MaxRows, c \in 1 .. MaxCols}

\* the per-file readers of a list of granule shapes; the i-th reader of the
\* list is named i
Granules(shapes) ==
    [i \in 1 .. Len(shapes) |-> [filename |-> i, shape |-> shapes[i]]]

\* granules of shapes (3, 5) and (2, 5), and of shapes (3, 5) and (2, 6)
ExampleShapes == <<<<3, 5>>, <<2, 5>>>>

MismatchShapes == <<<<3, 5>>, <<2, 6>>>>

\* a reader in use, with one MultiFileReader
ReaderOf(file_readers) ==
    [NewReader(<<>>, <<>>, None, None, None) EXCEPT
        !.file_readers = "data" :> MultiFileReader("data", file_readers),
        !.state = "ready"]

InitSwath ==
    /\ \E n \in 1 .. MaxGranules :
          \E shapes \in [1 .. n -> Shapes] \cup {ExampleShapes, MismatchShapes} :
              reader = ReaderOf(Granules(shapes))
    /\ datasets = <<>>
    /\ finder = None
    /\ call = NoCall

NextSwath == GetSwathData

SpecSwath == InitSwath /\ [][NextSwath]_vars

----------------------------------------------------------------------------
(* Claims about get_swath_data, checked under SpecSwath *)

SwathRead == call.op = "get_swath_data"

\* the per-file readers of the MultiFileReader that was read
ReadGranules == reader.file_readers[call.arg[1]].file_readers

\* the rows of the granules before the i-th one: n_1 + ... + n_(i-1)
RECURSIVE RowsBefore(_)
RowsBefore(i) ==
    IF i = 1 THEN 0 ELSE RowsBefore(i - 1) + ReadGranules[i - 1].shape[1]

\* C6: the array returned has n_1 + ... + n_N rows and granule i is written
\* to exactly the rows [n_1 + ... + n_(i-1), n_1 + ... + n_i) of the data
\* and of the mask buffer: the slices are consecutive, disjoint, in granule
\* order, and cover every row.
C6_RowSlices ==
    (SwathRead /\ call.ret.status = "ok") =>
        LET N == Len(ReadGranules)
            total == RowsBefore(N) + ReadGranules[N].shape[1]
        IN  /\ call.ret.value.shape[1] = total
            /\ Len(call.ret.value.data) = total
            /\ Len(call.ret.value.mask) = total
            /\ \A k \in 1 .. total :
                  \E i \in 1 .. N :
                      /\ RowsBefore(i) < k
                      /\ k <= RowsBefore(i) + ReadGranules[i].shape[1]
                      /\ call.ret.value.data[k]
                             = Some(<<ReadGranules[i].filename, k - RowsBefore(i)>>)
                      /\ call.ret.value.mask[k]
                             = Some(<<ReadGranules[i].filename, k - RowsBefore(i)>>)

\* C6 witness: granules of shapes (3, 5) and (2, 5) give an array of shape
\* (5, 5) whose rows 1 to 3 are the first granule's and rows 4 and 5 the
\* second's.
C6_Witness ==
    /\ SwathRead
    /\ ReadGranules = Granules(ExampleShapes)
    /\ call.ret.status = "ok"
    /\ call.ret.value.shape = <<5, 5>>
    /\ call.ret.value.data
           = <<Some(<<1, 1>>), Some(<<1, 2>>), Some(<<1, 3>>),
               Some(<<2, 1>>), Some(<<2, 2>>)>>

\* C7: whenever two granules report different trailing dimensions,
\* get_swath_data raises a shape-mismatch error and returns no array.
C7_MismatchRaises ==
    (/\ SwathRead
     /\ \E i, j \in 1 .. Len(ReadGranules) :
           Tail(ReadGranules[i].shape) # Tail(ReadGranules[j].shape))
        => call.ret.status = "ValueError"

----------------------------------------------------------------------------
(* The wavelength matching applied to two wavelengths *)

WlNumbers == 0 .. MaxWavelength

\* the intervals [min, centre, max]
WlTriples ==
    {<<lo, c, hi>> : lo \in WlNumbers, c \in WlNumbers, hi \in WlNumbers}

Wavelengths ==
    {Wl("int", <<n>>) : n \in WlNumbers}
        \cup {Wl("float", <<n>>) : n \in WlNumbers}
        \cup {Wl(t, w) : t \in {"tuple", "list"},
                         w \in {w \in WlTriples : w[1] <= w[2] /\ w[2] <= w[3]}}
        \cup {Wl("tuple", <<0, 1>>), Wl("NoneType", None)}

InitWl ==
    /\ reader = NewReader(<<>>, <<>>, None, None, None)
    /\ datasets = <<>>
    /\ finder = None
    /\ call = NoCall

WlMatch ==
    /\ call.op = "none"
    /\ \E a \in Wavelengths, b \in Wavelengths :
          call' = [op |-> "_wl_match", arg |-> <<a, b>>, ret |-> _wl_match(a, b)]
    /\ UNCHANGED <<reader, datasets, finder>>

NextWl == WlMatch

SpecWl == InitWl /\ [][NextWl]_vars

----------------------------------------------------------------------------
(* Claims about the wavelength matching, checked under SpecWl *)

WlMatched == call.op = "_wl_match"

\* C10, as claimed: when both operands are length-3 intervals and they are
\* not equal, the comparison raises a ValueError instead of returning a
\* boolean.
C10_UnequalIntervalsRaise ==
    (/\ WlMatched
     /\ IsInterval(call.arg[1])
     /\ IsInterval(call.arg[2])
     /\ call.arg[1] # call.arg[2])
        => call.ret.status = "ValueError"

\* C10, as amended: when both operands are length-3 intervals of the same
\* sequence type and they are not equal, the comparison returns False and
\* raises nothing.
C10_UnequalIntervalsDoNotMatch ==
    (/\ WlMatched
     /\ IsInterval(call.arg[1])
     /\ IsInterval(call.arg[2])
     /\ call.arg[1].type = call.arg[2].type
     /\ call.arg[1].v # call.arg[2].v)
        => call.ret = Return(FALSE)

\* C10 witness: two tuples that are not equal, the second one inside the
\* first, were compared.
C10_Witness ==
    /\ WlMatched
    /\ call.arg = <<Wl("tuple", <<0, 1, 2>>), Wl("tuple", <<1, 1, 2>>)>>
    /\ call.ret.status = "ok"

----------------------------------------------------------------------------
(* DatasetID and DatasetDict *)

(* A DatasetID is a record of the five DATASET_KEYS.  A name, resolution,  *)
(* polarization or calibration is optional: None, or Some of the value.    *)
(* A wavelength is a Wl, and Wl("NoneType", None) is the wavelength None.   *)
(* An object handed to the registry as a key carries its Python type: a    *)
(* DatasetID is Obj("DatasetID", did), a name Obj("str", <<name>>) and a    *)
(* number a Wl of type int or float.                                        *)
(* The DatasetDict is the sequence of its items in insertion order, which  *)
(* is the order dict.keys() iterates in.  A value is the metadata          *)
(* dictionary d of line 158; its wavelength_range is None when the         *)
(* dictionary has no such entry and Some of the wavelength when it has.     *)

DATASET_KEYS ==
    <<"name", "wavelength", "resolution", "polarization", "calibration">>

DatasetID(name, wavelength, resolution, polarization, calibration) ==
    [name |-> name, wavelength |-> wavelength, resolution |-> resolution,
     polarization |-> polarization, calibration |-> calibration]

NoWl == Wl("NoneType", None)

Obj(type, v) == [type |-> type, v |-> v]

\* getattr(k, key) is None
AttrIsNone(k, key) ==
    IF key = "wavelength" THEN k[key].type = "NoneType" ELSE k[key] = None

\* a == b of two wavelengths
PyEq(a, b) == IF IsNumber(a) /\ IsNumber(b) THEN a.v = b.v ELSE a = b

keys(self) == [i \in 1 .. Len(self) |-> self[i].key]

_name_match(a, b) == b.type = "str" /\ a = b.v

\* [k for k in keys if k.wavelength is not None
\*                     and self._wl_match(k.wavelength, did.wavelength)]
RECURSIVE WlFilter(_, _)
WlFilter(ks, wavelength) ==
    IF ks = <<>> THEN Return(<<>>)
    ELSE LET k == Head(ks)
             rest == WlFilter(Tail(ks), wavelength)
         IN  IF AttrIsNone(k, "wavelength") THEN rest
             ELSE LET m == _wl_match(k.wavelength, wavelength)
                  IN  IF m.status # "ok" THEN m
                      ELSE IF rest.status # "ok" THEN rest
                      ELSE IF m.value THEN Return(<<k>> \o rest.value)
                      ELSE rest

\* mutant of EqFilter: a stored key whose field is None passes the filter
RECURSIVE EqFilterNoneMatches(_, _, _)
EqFilterNoneMatches(ks, key, v) ==
    IF ks = <<>> THEN <<>>
    ELSE LET k == Head(ks)
             rest == EqFilterNoneMatches(Tail(ks), key, v)
         IN  IF AttrIsNone(k, key) \/ k[key] = v THEN <<k>> \o rest ELSE rest

\* [k for k in keys if getattr(k, key) is not None
\*                     and getattr(k, key) == getattr(did, key)]
RECURSIVE EqFilter(_, _, _)
EqFilter(ks, key, v) ==
    IF ks = <<>> THEN <<>>
    ELSE LET k == Head(ks)
             rest == EqFilter(Tail(ks), key, v)
         IN  IF ~AttrIsNone(k, key) /\ k[key] = v THEN <<k>> \o rest ELSE rest

\* the loop over DATASET_KEYS of get_keys_by_datasetid
RECURSIVE FieldLoop(_, _, _)
FieldLoop(did, fields, ks) ==
    IF fields = <<>> THEN Return(ks)
    ELSE LET key == Head(fields)
         IN  IF AttrIsNone(did, key) THEN FieldLoop(did, Tail(fields), ks)
             ELSE IF key = "wavelength"
                  THEN LET r == WlFilter(ks, did.wavelength)
                       IN  IF r.status # "ok" THEN r
                           ELSE FieldLoop(did, Tail(fields), r.value)
             ELSE FieldLoop(did, Tail(fields), EqFilter(ks, key, did[key]))

get_keys_by_datasetid(self, did) == FieldLoop(did, DATASET_KEYS, keys(self))

\* for k in self.keys():
\*     if k.wavelength is not None and self._wl_match(k.wavelength, key):
\*         return k
RECURSIVE WlLoop(_, _)
WlLoop(ks, key) ==
    IF ks = <<>> THEN Return(None)
    ELSE LET k == Head(ks)
         IN  IF AttrIsNone(k, "wavelength") THEN WlLoop(Tail(ks), key)
             ELSE LET m == _wl_match(k.wavelength, key)
                  IN  IF m.status # "ok" THEN m
                      ELSE IF m.value THEN Return(Some(k))
                      ELSE WlLoop(Tail(ks), key)

\* for k in self.keys():
\*     if self._name_match(k.name, key):
\*         return k
RECURSIVE NameLoop(_, _)
NameLoop(ks, key) ==
    IF ks = <<>> THEN Return(None)
    ELSE IF _name_match(Head(ks).name, key) THEN Return(Some(Head(ks)))
    ELSE NameLoop(Tail(ks), key)

\* mutant of get_key: of several matches of a DatasetID the first is taken
get_key_first(self, key) ==
    IF key.type = "DatasetID"
    THEN LET res == get_keys_by_datasetid(self, key.v)
         IN  IF res.status # "ok" THEN res
             ELSE IF res.value = <<>> THEN Return(None)
             ELSE Return(Some(res.value[1]))
    ELSE IF IsNumber(key) THEN WlLoop(keys(self), key)
    ELSE NameLoop(keys(self), key)

\* the result is None, or Some of the stored key
get_key(self, key) ==
    IF key.type = "DatasetID"
    THEN LET res == get_keys_by_datasetid(self, key.v)
         IN  IF res.status # "ok" THEN res
             ELSE IF res.value = <<>> THEN Return(None)
             ELSE IF Len(res.value) > 1 THEN Raise("KeyError")
             ELSE Return(Some(res.value[1]))
    ELSE IF IsNumber(key) THEN WlLoop(keys(self), key)
    ELSE NameLoop(keys(self), key)

\* the position of a key of the dict
IndexOf(self, k) == CHOOSE i \in 1 .. Len(self) : self[i].key = k

HasKey(self, k) == \E i \in 1 .. Len(self) : self[i].key = k

__getitem__(self, item) ==
    LET key == get_key(self, item)
    IN  IF key.status # "ok" THEN key
        ELSE IF key.value = None THEN Raise("KeyError")
        ELSE Return(self[IndexOf(self, Val(key.value))].value)

\* mutant of __contains__: a query that resolves to no key is an error
__contains__raising(self, item) ==
    LET key == get_key(self, item)
    IN  IF key.status # "ok" THEN key
        ELSE IF key.value = None THEN Raise("KeyError")
        ELSE Return(HasKey(self, Val(key.value)))

\* None is never a key of the dict
__contains__(self, item) ==
    LET key == get_key(self, item)
    IN  IF key.status # "ok" THEN key
        ELSE IF key.value = None THEN Return(FALSE)
        ELSE Return(HasKey(self, Val(key.value)))

\* dict.__delitem__: the dict without the item of the key
Remove(self, k) ==
    LET i == IndexOf(self, k)
    IN  SubSeq(self, 1, i - 1) \o SubSeq(self, i + 1, Len(self))

\* mutant of __delitem__: a query that resolves to no key deletes nothing
\* and raises nothing
__delitem__silent(self, key) ==
    LET k == get_key(self, key)
    IN  IF k.status # "ok" THEN [ret |-> k, self |-> self]
        ELSE IF k.value = None THEN [ret |-> Return(None), self |-> self]
        ELSE [ret |-> Return(None), self |-> Remove(self, Val(k.value))]

\* the result and the dict after the call; dict.__delitem__(None) raises
\* KeyError
__delitem__(self, key) ==
    LET k == get_key(self, key)
    IN  IF k.status # "ok" THEN [ret |-> k, self |-> self]
        ELSE IF k.value = None THEN [ret |-> Raise("KeyError"), self |-> self]
        ELSE [ret |-> Return(None), self |-> Remove(self, Val(k.value))]

\* d.get("wavelength_range")
GetWavelengthRange(d) ==
    IF d.wavelength_range = None THEN NoWl ELSE Val(d.wavelength_range)

\* lines 163-174: the key made of the old key and of the metadata
NewKey(old_key, d) ==
    DatasetID(IF old_key.type = "str" THEN old_key.v ELSE d.name,
              GetWavelengthRange(d), d.resolution, d.polarization,
              d.calibration)

\* lines 179-183: the metadata updated with the information of the key
Updated(d, key) ==
    [d EXCEPT !.name = key.name, !.resolution = key.resolution,
              !.calibration = key.calibration,
              !.polarization = key.polarization]

\* dict.__setitem__: the value of a key of the dict is replaced in place,
\* the item of a new key is appended
Store(self, k, value) ==
    IF HasKey(self, k)
    THEN [self EXCEPT ![IndexOf(self, k)] = [key |-> k, value |-> value]]
    ELSE Append(self, [key |-> k, value |-> value])

\* lines 178-188, once the key is known
StoreChecked(self, key, d) ==
    IF /\ d.wavelength_range # None
       /\ ~PyEq(Val(d.wavelength_range), key.wavelength)
    THEN [ret |-> Raise("TypeError"), self |-> self]
    ELSE [ret |-> Return(None), self |-> Store(self, key, Updated(d, key))]

\* mutant of __setitem__: the wavelength of the metadata is never compared
__setitem__unchecked(self, key, d) ==
    IF key.type = "DatasetID"
    THEN [ret |-> Return(None), self |-> Store(self, key.v, Updated(d, key.v))]
    ELSE LET k == get_key(self, key)
         IN  IF k.status # "ok" THEN [ret |-> k, self |-> self]
             ELSE IF k.value # None
                  THEN [ret |-> Return(None),
                        self |-> Store(self, Val(k.value),
                                       Updated(d, Val(k.value)))]
             ELSE LET new == NewKey(key, d)
                  IN  IF new.name = None /\ AttrIsNone(new, "wavelength")
                      THEN [ret |-> Raise("ValueError"), self |-> self]
                      ELSE [ret |-> Return(None),
                            self |-> Store(self, new, Updated(d, new))]

\* the result and the dict after the call
__setitem__(self, key, d) ==
    IF key.type = "DatasetID" THEN StoreChecked(self, key.v, d)
    ELSE LET k == get_key(self, key)
         IN  IF k.status # "ok" THEN [ret |-> k, self |-> self]
             ELSE IF k.value # None THEN StoreChecked(self, Val(k.value), d)
             ELSE LET new == NewKey(key, d)
                  IN  IF new.name = None /\ AttrIsNone(new, "wavelength")
                      THEN [ret |-> Raise("ValueError"), self |-> self]
                      ELSE StoreChecked(self, new, d)

----------------------------------------------------------------------------
(* The registry and its lookups: a registry built by insertions is handed  *)
(* to one call of get_keys_by_datasetid, get_key, __getitem__,             *)
(* __contains__ or __delitem__.                                             *)

\* the most items of a registry that is looked up in
MaxDatasets == 2

\* the wavelengths of the registry are floats, and intervals are tuples of
\* floats (min, centre, max)
Band1 == Wl("tuple", <<0, 0, 1>>)

Band2 == Wl("tuple", <<1, 1, 2>>)

Numbers == {Wl("float", <<n>>) : n \in {0, 1}}

Names == {"a", "b"}

\* the DatasetIDs that are stored, and asked for
DatasetIDs ==
    {DatasetID(name, wavelength, resolution, None, None) :
        name \in {None, Some("a")},
        wavelength \in {NoWl, Band1, Band2},
        resolution \in {None, Some(1)}}

\* the DatasetIDs that are asked for only: their wavelength is a number
NumberIDs ==
    {DatasetID(name, wavelength, None, None, None) :
        name \in {None, Some("a")}, wavelength \in Numbers}

IDKeys(dids) == {Obj("DatasetID", did) : did \in dids}

NameKeys == {Obj("str", Some(name)) : name \in Names}

\* the metadata dictionaries that are stored
Infos ==
    {[name |-> name, wavelength_range |-> wavelength_range,
      resolution |-> None, polarization |-> None, calibration |-> None] :
        name \in {None, Some("a")},
        wavelength_range \in {None, Some(Band1), Some(Band2)}}

\* the results of __setitem__ on the registries of a set
Inserted(registries, ks) ==
    {__setitem__(self, key, d).self : self \in registries, key \in ks,
                                      d \in Infos}

\* the registries of at most n items that insertions build
RECURSIVE Registries(_)
Registries(n) ==
    IF n = 0 THEN {<<>>}
    ELSE LET smaller == Registries(n - 1)
         IN  smaller \cup Inserted(smaller, IDKeys(DatasetIDs))
                     \cup Inserted(smaller, NameKeys)
                     \cup Inserted(smaller, Numbers)

InitLookup ==
    /\ reader = NewReader(<<>>, <<>>, None, None, None)
    /\ datasets \in Registries(MaxDatasets)
    /\ finder = None
    /\ call = NoCall

GetKeysByDatasetID ==
    /\ call.op = "none"
    /\ \E did \in DatasetIDs \cup NumberIDs :
          call' = [op |-> "get_keys_by_datasetid", arg |-> did,
                   ret |-> get_keys_by_datasetid(datasets, did)]
    /\ UNCHANGED <<reader, datasets, finder>>

\* the lookup op of the dict with one key
Lookup(op, key) ==
    /\ call.op = "none"
    /\ call' = [op |-> op, arg |-> key,
                ret |-> CASE op = "get_key" -> get_key(datasets, key)
                          [] op = "__getitem__" -> __getitem__(datasets, key)
                          [] op = "__contains__" -> __contains__(datasets, key)
                          [] op = "__delitem__" -> __delitem__(datasets, key).ret]
    /\ datasets' = IF op = "__delitem__" THEN __delitem__(datasets, key).self
                   ELSE datasets
    /\ UNCHANGED <<reader, finder>>

LookupAny(op) ==
    \/ \E key \in IDKeys(DatasetIDs \cup NumberIDs) : Lookup(op, key)
    \/ \E key \in NameKeys : Lookup(op, key)
    \/ \E key \in Numbers : Lookup(op, key)

GetKey == LookupAny("get_key")

GetItem == LookupAny("__getitem__")

ContainsItem == LookupAny("__contains__")

DelItem == LookupAny("__delitem__")

NextLookup ==
    \/ GetKeysByDatasetID
    \/ GetKey
    \/ GetItem
    \/ ContainsItem
    \/ DelItem

SpecLookup == InitLookup /\ [][NextLookup]_vars

----------------------------------------------------------------------------
(* Claims about the lookups of the registry, checked under SpecLookup *)

LookupOps == {"get_key", "__getitem__", "__contains__", "__delitem__"}

\* the match rule of two wavelengths: a number lies within an interval,
\* two numbers are equal, two intervals are identical
WlCompatible(a, b) ==
    CASE IsInterval(a) /\ IsNumber(b) -> a.v[1] <= b.v[1] /\ b.v[1] <= a.v[3]
      [] IsNumber(a) /\ IsInterval(b) -> b.v[1] <= a.v[1] /\ a.v[1] <= b.v[3]
      [] IsNumber(a) /\ IsNumber(b) -> a.v = b.v
      [] IsInterval(a) /\ IsInterval(b) -> a.v = b.v
      [] OTHER -> FALSE

\* the stored key k is compatible with the populated field of the query
FieldCompatible(k, did, field) ==
    IF field = "wavelength" THEN WlCompatible(k.wavelength, did.wavelength)
    ELSE k[field] = did[field]

Populated(did) ==
    {i \in 1 .. Len(DATASET_KEYS) : ~AttrIsNone(did, DATASET_KEYS[i])}

\* the positions of the stored keys compatible with every populated field
\* of the query
Matching(self, did) ==
    {i \in 1 .. Len(self) :
        \A f \in Populated(did) :
           FieldCompatible(self[i].key, did, DATASET_KEYS[f])}

\* the positions of the stored keys that a key object matches
MatchingKey(self, key) ==
    IF key.type = "DatasetID" THEN Matching(self, key.v)
    ELSE IF IsNumber(key)
         THEN {i \in 1 .. Len(self) : WlCompatible(self[i].key.wavelength, key)}
    ELSE {i \in 1 .. Len(self) : self[i].key.name = key.v}

\* the distance of the centre of a stored interval to a number
CentreDistance(k, number) ==
    IF k.wavelength.v[2] >= number.v[1]
    THEN k.wavelength.v[2] - number.v[1]
    ELSE number.v[1] - k.wavelength.v[2]

\* C11: get_key with a bare number returns, of the stored keys whose
\* wavelength interval contains the number, one whose centre is closest to
\* the number: no stored key whose interval contains the number has a
\* strictly closer centre.
C11_ClosestCentre ==
    (/\ call.op = "get_key"
     /\ IsNumber(call.arg)
     /\ MatchingKey(datasets, call.arg) # {})
        => /\ call.ret.status = "ok"
           /\ call.ret.value # None
           /\ \E i \in MatchingKey(datasets, call.arg) :
                 /\ datasets[i].key = Val(call.ret.value)
                 /\ \A j \in MatchingKey(datasets, call.arg) :
                       CentreDistance(datasets[i].key, call.arg)
                           <= CentreDistance(datasets[j].key, call.arg)

\* C12: when more than one stored key is compatible with every populated
\* field of a DatasetID, get_key, __getitem__, __contains__ and __delitem__
\* with this DatasetID raise KeyError, and the registry is left as it was.
C12_AmbiguousRaises ==
    [][(/\ call'.op \in LookupOps
        /\ call'.arg.type = "DatasetID"
        /\ Cardinality(Matching(datasets, call'.arg.v)) > 1)
           => /\ call'.ret = Raise("KeyError")
              /\ datasets' = datasets]_vars

\* C12 witness: __delitem__ with a DatasetID that two stored keys are
\* compatible with was called, and it raised.
C12_Witness ==
    /\ call.op = "__delitem__"
    /\ call.arg.type = "DatasetID"
    /\ Cardinality(Matching(datasets, call.arg.v)) = 2
    /\ call.ret.status = "KeyError"

----------------------------------------------------------------------------
(* The registry under insertions and deletions: a DatasetDict that starts  *)
(* empty and is changed by any sequence of __setitem__ and __delitem__,    *)
(* each with a DatasetID, a name or a number.  Every call hands over a      *)
(* metadata dictionary of its own.                                          *)

\* the most items of a registry that is changed
MaxItems == 2

\* the DatasetIDs that items are stored and deleted with
DictIDs ==
    {DatasetID(name, wavelength, None, None, None) :
        name \in {None, Some("a")}, wavelength \in {NoWl, Band1}}

InitDict ==
    /\ reader = NewReader(<<>>, <<>>, None, None, None)
    /\ datasets = <<>>
    /\ finder = None
    /\ call = NoCall

SetItemWith(key, d) ==
    LET r == __setitem__(datasets, key, d)
    IN  /\ Len(r.self) <= MaxItems
        /\ call' = [op |-> "__setitem__", arg |-> <<key, d>>, ret |-> r.ret]
        /\ datasets' = r.self
        /\ UNCHANGED <<reader, finder>>

SetItem ==
    \E d \in Infos :
       \/ \E key \in IDKeys(DictIDs) : SetItemWith(key, d)
       \/ \E key \in NameKeys : SetItemWith(key, d)
       \/ \E key \in Numbers : SetItemWith(key, d)

DeleteWith(key) ==
    LET r == __delitem__(datasets, key)
    IN  /\ call' = [op |-> "__delitem__", arg |-> <<key>>, ret |-> r.ret]
        /\ datasets' = r.self
        /\ UNCHANGED <<reader, finder>>

Delete ==
    \/ \E key \in IDKeys(DictIDs) : DeleteWith(key)
    \/ \E key \in NameKeys : DeleteWith(key)
    \/ \E key \in Numbers : DeleteWith(key)

NextDict == SetItem \/ Delete

SpecDict == InitDict /\ [][NextDict]_vars

----------------------------------------------------------------------------
(* Claims about insertions and deletions, checked under SpecDict *)

\* the last call was a __setitem__ that stored its value
Stored == call.op = "__setitem__" /\ call.ret.status = "ok"

\* the wavelength metadata of a value that carries some
Carried(d) == Val(d.wavelength_range)

\* C15: after R[k] = v has succeeded for a DatasetID k, R[k] returns v,
\* whatever other keys the registry holds.
C15_RoundTrip ==
    (Stored /\ call.arg[1].type = "DatasetID")
        => __getitem__(datasets, call.arg[1])
              = Return(Updated(call.arg[2], call.arg[1].v))

\* C16: after R[name] = v1 with wavelength metadata w1 has succeeded, a
\* next R[name] = v2 with wavelength metadata w2 that differs from w1
\* raises TypeError and leaves the registry as it was: the key of that name
\* has the wavelength w1 and the value v1, and a name that had one key has
\* exactly one.
C16_SecondRegistrationRaises ==
    [][(/\ Stored
        /\ call.arg[1].type = "str"
        /\ call.arg[2].wavelength_range # None
        /\ call'.op = "__setitem__"
        /\ call'.arg[1].type = "str"
        /\ call'.arg[1].v = call.arg[1].v
        /\ call'.arg[2].wavelength_range # None
        /\ ~PyEq(Carried(call'.arg[2]), Carried(call.arg[2])))
           => /\ call'.ret = Raise("TypeError")
              /\ datasets' = datasets
              /\ LET found == NameLoop(keys(datasets'), call.arg[1]).value
                     item == datasets'[IndexOf(datasets', Val(found))]
                 IN  /\ found # None
                     /\ item.key.wavelength = Carried(call.arg[2])
                     /\ item.value = Updated(call.arg[2], item.key)
              /\ Cardinality(MatchingKey(datasets, call.arg[1])) = 1
                    => Cardinality(MatchingKey(datasets', call.arg[1])) = 1]_vars

\* C16 witness: a second registration under the name of the only item, with
\* another wavelength, has raised.
C16_Witness ==
    /\ call.op = "__setitem__"
    /\ call.arg[1].type = "str"
    /\ call.ret.status = "TypeError"
    /\ Len(datasets) = 1
    /\ datasets[1].key.name = call.arg[1].v
    /\ datasets[1].value.wavelength_range = Some(datasets[1].key.wavelength)
    /\ call.arg[2].wavelength_range # None
    /\ call.arg[2].wavelength_range # datasets[1].value.wavelength_range

\* C18: every key stored in the registry has its name or its wavelength
\* set.
C18_NameOrWavelength ==
    \A i \in 1 .. Len(datasets) :
       \/ datasets[i].key.name # None
       \/ ~AttrIsNone(datasets[i].key, "wavelength")

----------------------------------------------------------------------------
(* ReaderFinder: readers for a list of filenames *)

(* The finder holds the reader configurations in the order glob_config     *)
(* lists them.  A configuration is its file name config_fn, whether         *)
(* _read_reader_config reads it or raises ValueError (valid), and its file  *)
(* patterns.  Two entries of the same config_fn are the same configuration  *)
(* found in two directories.  A filename is a base name, so joining a       *)
(* pattern with base_dir changes nothing of the match of line 444.  The     *)
(* reader class of a configuration is taken to import and to construct;    *)
(* the reader it makes is the reader_info it is made of.                    *)

\* files.remove(filename): the list without the first filename equal to it
RECURSIVE RemoveFirst(_, _)
RemoveFirst(files, filename) ==
    IF files = <<>> THEN <<>>
    ELSE IF Head(files) = filename THEN Tail(files)
    ELSE <<Head(files)>> \o RemoveFirst(Tail(files), filename)

\* lines 443-446: the loop over list(files), a copy, for one pattern
RECURSIVE FilenameLoop(_, _, _, _)
FilenameLoop(pattern, copy, filenames, files) ==
    IF copy = <<>> THEN [filenames |-> filenames, files |-> files]
    ELSE IF fnmatch(Head(copy), pattern)
         THEN FilenameLoop(pattern, Tail(copy), Append(filenames, Head(copy)),
                           RemoveFirst(files, Head(copy)))
    ELSE FilenameLoop(pattern, Tail(copy), filenames, files)

\* mutant of FilePatternLoop: a matching file stays in the pool
RECURSIVE FilePatternLoopKeepsPool(_, _, _)
FilePatternLoopKeepsPool(file_patterns, filenames, files) ==
    IF file_patterns = <<>> THEN [filenames |-> filenames, files |-> files]
    ELSE LET r == FilenameLoop(globify(Head(file_patterns)), files,
                               filenames, files)
         IN  FilePatternLoopKeepsPool(Tail(file_patterns), r.filenames, files)

\* lines 439-446: the loop over the file patterns
RECURSIVE FilePatternLoop(_, _, _)
FilePatternLoop(file_patterns, filenames, files) ==
    IF file_patterns = <<>> THEN [filenames |-> filenames, files |-> files]
    ELSE LET r == FilenameLoop(globify(Head(file_patterns)), files,
                               filenames, files)
         IN  FilePatternLoop(Tail(file_patterns), r.filenames, r.files)

\* the filenames of the reader_info after the call, and the files returned
assign_matching_files(reader_info, files) ==
    FilePatternLoop(reader_info.file_patterns, reader_info.filenames, files)

\* the reader_info of a configuration that is read
_read_reader_config(config) ==
    IF config.valid
    THEN Return([name |-> config.config_fn,
                 file_patterns |-> config.file_patterns, filenames |-> <<>>])
    ELSE Raise("ValueError")

_load_reader(reader_info) ==
    [name |-> reader_info.name, filenames |-> reader_info.filenames]

(* What the finder does is logged as it is done: the configuration read   *)
(* (read) or found invalid (invalid), the filenames its reader_info has    *)
(* after files were assigned to it (assign), the call of get_filenames     *)
(* for it (get_filenames) and the filenames that call returns (discover),  *)
(* and the reader made of it (load).                                       *)
Event(event, config, filenames) ==
    [event |-> event, config_fn |-> config.config_fn, filenames |-> filenames]

\* the result of the rest of a generator, after the events
Logged(events, result) == [result EXCEPT !.log = events \o @]

\* mutant of ConfigLoop: files that are left are an error only when no
\* reader was made
RECURSIVE ConfigLoopLenient(_, _, _, _)
ConfigLoopLenient(configs, reader_names, files, yielded) ==
    IF configs = <<>>
    THEN [yielded |-> yielded,
          status |-> IF files # <<>> /\ yielded = <<>> THEN "IOError" ELSE "ok",
          log |-> <<>>]
    ELSE LET config == Head(configs)
             reader_info == _read_reader_config(config)
         IN  IF config.config_fn \in reader_names
             THEN ConfigLoopLenient(Tail(configs), reader_names, files, yielded)
             ELSE IF reader_info.status # "ok"
             THEN Logged(<<Event("invalid", config, <<>>)>>,
                         ConfigLoopLenient(Tail(configs), reader_names, files, yielded))
             ELSE LET a == assign_matching_files(reader_info.value, files)
                      made == IF a.filenames # <<>>
                              THEN Append(yielded,
                                          _load_reader([reader_info.value EXCEPT
                                              !.filenames = a.filenames]))
                              ELSE yielded
                      events == <<Event("read", config, <<>>),
                                  Event("assign", config, a.filenames)>>
                                \o IF a.filenames # <<>>
                                   THEN <<Event("load", config, a.filenames)>>
                                   ELSE <<>>
                  IN  IF a.files = <<>>
                      THEN [yielded |-> made, status |-> "ok", log |-> events]
                      ELSE Logged(events,
                                  ConfigLoopLenient(Tail(configs),
                                      reader_names \cup {config.config_fn},
                                      a.files, made))

\* lines 292-317: the loop over the configurations and the check after it;
\* the readers yielded, ok or the exception that ends the generator, and
\* the log
RECURSIVE ConfigLoop(_, _, _, _)
ConfigLoop(configs, reader_names, files, yielded) ==
    IF configs = <<>>
    THEN [yielded |-> yielded,
          status |-> IF files # <<>> THEN "IOError" ELSE "ok",
          log |-> <<>>]
    ELSE LET config == Head(configs)
             reader_info == _read_reader_config(config)
         IN  IF config.config_fn \in reader_names
             THEN ConfigLoop(Tail(configs), reader_names, files, yielded)
             ELSE IF reader_info.status # "ok"
             THEN Logged(<<Event("invalid", config, <<>>)>>,
                         ConfigLoop(Tail(configs), reader_names, files, yielded))
             ELSE LET a == assign_matching_files(reader_info.value, files)
                      made == IF a.filenames # <<>>
                              THEN Append(yielded,
                                          _load_reader([reader_info.value EXCEPT
                                              !.filenames = a.filenames]))
                              ELSE yielded
                      events == <<Event("read", config, <<>>),
                                  Event("assign", config, a.filenames)>>
                                \o IF a.filenames # <<>>
                                   THEN <<Event("load", config, a.filenames)>>
                                   ELSE <<>>
                  IN  IF a.files = <<>>
                      THEN [yielded |-> made, status |-> "ok", log |-> events]
                      ELSE Logged(events,
                                  ConfigLoop(Tail(configs),
                                      reader_names \cup {config.config_fn},
                                      a.files, made))

_find_files_readers(self, files) == ConfigLoop(self.configs, {}, files, <<>>)

\* list(generator): the readers yielded, unless the generator raises
ListOf(generator) ==
    IF generator.status = "ok" THEN Return(generator.yielded)
    ELSE Raise(generator.status)

\* __call__ without reader and without sensor (lines 213-215)
__call__filenames(self, filenames) ==
    IF filenames # None THEN ListOf(_find_files_readers(self, Val(filenames)))
    ELSE Return(<<>>)

----------------------------------------------------------------------------
(* The finder called with filenames, for every list of configurations *)

\* the most configurations the finder finds
MaxConfigs == 2
\* the most filenames the finder is called with
MaxFilenames == 2

\* the configurations: x.cfg and y.cfg, each either not readable or with
\* the patterns A*, B{field}, ?1 or A* and ?1
Configs ==
    {[config_fn |-> config_fn, valid |-> TRUE, file_patterns |-> file_patterns] :
        config_fn \in {"x.cfg", "y.cfg"},
        file_patterns \in {<<PatA>>, <<PatB>>, <<Pat1>>, <<PatA, Pat1>>}}
    \cup {[config_fn |-> config_fn, valid |-> FALSE, file_patterns |-> <<>>] :
             config_fn \in {"x.cfg", "y.cfg"}}

\* the lists of at most n elements of a set
RECURSIVE Lists(_, _)
Lists(S, n) ==
    IF n = 0 THEN {<<>>}
    ELSE Lists(S, n - 1)
            \cup {Append(s, x) : s \in Lists(S, n - 1), x \in S}

\* entries of one config_fn are one configuration
ConfigLists ==
    {cs \in Lists(Configs, MaxConfigs) :
        \A i, j \in 1 .. Len(cs) :
           cs[i].config_fn = cs[j].config_fn => cs[i] = cs[j]}

\* the filenames A1, B1, BA and CA; no pattern of the model matches CA
Filenames == {<<"A", "1">>, <<"B", "1">>, <<"B", "A">>, <<"C", "A">>}

InitFinder ==
    /\ reader = NewReader(<<>>, <<>>, None, None, None)
    /\ datasets = <<>>
    /\ finder \in {[configs |-> cs] : cs \in ConfigLists}
    /\ call = NoCall

FindReaders ==
    /\ call.op = "none"
    /\ \E filenames \in {None} \cup {Some(fs) : fs \in Lists(Filenames, MaxFilenames)} :
          call' = [op |-> "__call__", arg |-> filenames,
                   ret |-> __call__filenames(finder, filenames)]
    /\ UNCHANGED <<reader, datasets, finder>>

NextFinder == FindReaders

SpecFinder == InitFinder /\ [][NextFinder]_vars

----------------------------------------------------------------------------
(* Claims about the finder called with filenames, checked under SpecFinder *)

FoundByFilenames == call.op = "__call__" /\ call.arg # None

Supplied == Val(call.arg)

\* the configuration at position i is read, and is the first of its name
Tried(i) ==
    /\ finder.configs[i].valid
    /\ \A j \in 1 .. i - 1 :
          finder.configs[j].config_fn # finder.configs[i].config_fn

\* a pattern of the configuration at position i matches the filename
Claims(i, filename) ==
    \E n \in 1 .. Len(finder.configs[i].file_patterns) :
       fnmatch(filename, globify(finder.configs[i].file_patterns[n]))

Claimers(filename) ==
    {i \in 1 .. Len(finder.configs) : Tried(i) /\ Claims(i, filename)}

Unclaimed == {n \in 1 .. Len(Supplied) : Claimers(Supplied[n]) = {}}

\* the first configuration, in the order of enumeration, that claims the
\* filename
FirstClaimer(filename) ==
    CHOOSE i \in Claimers(filename) : \A j \in Claimers(filename) : i <= j

\* the configurations that are the first claimer of a supplied filename
Claiming ==
    {i \in 1 .. Len(finder.configs) :
        \E n \in 1 .. Len(Supplied) :
           /\ Claimers(Supplied[n]) # {}
           /\ FirstClaimer(Supplied[n]) = i}

\* the number of configurations of Claiming up to position i
Rank(i) == Cardinality({j \in Claiming : j <= i})

\* C19: called with filenames only, the finder fails with IOError when a
\* filename is claimed by no configuration; otherwise it returns one reader
\* for each configuration that is the first, in the order of enumeration,
\* to claim some filename, in that order, and the filenames of the reader
\* are the supplied filenames that this configuration is the first to
\* claim, each as often as it is supplied: no filename is in two readers.
C19_FirstClaimerReads ==
    FoundByFilenames =>
        IF Unclaimed # {} THEN call.ret = Raise("IOError")
        ELSE /\ call.ret.status = "ok"
             /\ Len(call.ret.value) = Cardinality(Claiming)
             /\ \A i \in Claiming :
                   LET made == call.ret.value[Rank(i)]
                   IN  /\ made.name = finder.configs[i].config_fn
                       /\ made.filenames # <<>>
                       /\ \A f \in Filenames :
                             Count(made.filenames, {f})
                                = IF Claimers(f) # {} /\ FirstClaimer(f) = i
                                  THEN Count(Supplied, {f}) ELSE 0

\* C19 witness: two filenames that the patterns of both of two
\* configurations match were supplied, and one reader is returned.
C19_Witness ==
    /\ FoundByFilenames
    /\ Len(Supplied) = 2
    /\ Supplied[1] # Supplied[2]
    /\ Len(finder.configs) = 2
    /\ \A n \in 1 .. 2 : Claimers(Supplied[n]) = {1, 2}
    /\ call.ret.status = "ok"
    /\ Len(call.ret.value) = 1

\* C20, as claimed: when some supplied files are claimed by no
\* configuration but a configuration claimed files and made a reader, the
\* readers are returned and nothing is raised.
C20_UnclaimedIsWarning ==
    (/\ FoundByFilenames
     /\ Unclaimed # {}
     /\ Claiming # {})
        => /\ call.ret.status = "ok"
           /\ call.ret.value # <<>>

\* C20, as amended: when some supplied files are claimed by no
\* configuration the call raises IOError and returns no reader, also when a
\* configuration claimed files and made a reader.
C20_UnclaimedRaises ==
    (/\ FoundByFilenames
     /\ Unclaimed # {}
     /\ Claiming # {})
        => call.ret = Raise("IOError")

\* C20 witness: of two supplied files the first is claimed by a
\* configuration and the second by none, and the call raised.
C20_Witness ==
    /\ FoundByFilenames
    /\ Len(Supplied) = 2
    /\ Claimers(Supplied[1]) # {}
    /\ Unclaimed = {2}
    /\ call.ret.status = "IOError"

----------------------------------------------------------------------------
(* ReaderFinder: readers for a sensor or for a reader name *)

(* Besides its configurations the finder holds info, the start_time and    *)
(* end_time of the request, and the files on disk that glob finds.  A      *)
(* file on disk is its base name with the start_time and the optional      *)
(* end_time that the parser reads from the name; every name parses and no  *)
(* end_time is before its start_time.  A configuration names its sensors   *)
(* and, optionally, a start_time of its own.                               *)

\* the characters of filenames, in the order of sorted()
Alphabet == <<"1", "A", "B", "C">>

Ord(char) == CHOOSE i \in 1 .. Len(Alphabet) : Alphabet[i] = char

\* a < b of two filenames
RECURSIVE Before(_, _)
Before(a, b) ==
    IF b = <<>> THEN FALSE
    ELSE IF a = <<>> THEN TRUE
    ELSE IF Head(a) = Head(b) THEN Before(Tail(a), Tail(b))
    ELSE Ord(Head(a)) < Ord(Head(b))

RECURSIVE InsertByName(_, _)
InsertByName(s, x) ==
    IF s = <<>> THEN <<x>>
    ELSE IF Before(x, Head(s)) THEN <<x>> \o s
    ELSE <<Head(s)>> \o InsertByName(Tail(s), x)

\* sorted(filenames)
RECURSIVE SortedNames(_)
SortedNames(s) ==
    IF s = <<>> THEN <<>>
    ELSE InsertByName(SortedNames(Tail(s)), Head(s))

\* lines 352-364: the file is within the time interval, or contains the
\* start time; a file without end_time ends in 1950, before every time
TimeMatch(reader_start, reader_end, file) ==
    LET meta_start == file.start_time
        meta_end == IF file.end_time = None THEN 0 - 1 ELSE Val(file.end_time)
    IN  IF reader_end # None
        THEN \/ reader_start <= meta_start /\ meta_start <= Val(reader_end)
             \/ reader_start <= meta_end /\ meta_end <= Val(reader_end)
        ELSE \/ /\ file.end_time # None
                /\ meta_start <= reader_start
                /\ reader_start <= meta_end
             \/ meta_start = reader_start

\* lines 340-364: the loop over the files that glob finds for one pattern
RECURSIVE GlobLoop(_, _, _, _, _)
GlobLoop(pattern, disk, reader_start, reader_end, filenames) ==
    IF disk = <<>> THEN filenames
    ELSE GlobLoop(pattern, Tail(disk), reader_start, reader_end,
                  IF /\ fnmatch(Head(disk).filename, pattern)
                     /\ TimeMatch(reader_start, reader_end, Head(disk))
                  THEN Append(filenames, Head(disk).filename)
                  ELSE filenames)

\* lines 335-364: the loop over the file patterns
RECURSIVE DiscoverLoop(_, _, _, _, _)
DiscoverLoop(file_patterns, disk, reader_start, reader_end, filenames) ==
    IF file_patterns = <<>> THEN filenames
    ELSE DiscoverLoop(Tail(file_patterns), disk, reader_start, reader_end,
                      GlobLoop(globify(Head(file_patterns)), disk,
                               reader_start, reader_end, filenames))

\* mutant of get_filenames: without a start time no file matches
get_filenames_empty(self, reader_info) ==
    IF reader_info.start_time = None THEN Return(<<>>)
    ELSE Return(SortedNames(DiscoverLoop(reader_info.file_patterns, self.disk,
                                         Val(reader_info.start_time),
                                         reader_info.end_time, <<>>)))

get_filenames(self, reader_info) ==
    IF reader_info.start_time = None THEN Raise("ValueError")
    ELSE Return(SortedNames(DiscoverLoop(reader_info.file_patterns, self.disk,
                                         Val(reader_info.start_time),
                                         reader_info.end_time, <<>>)))

\* reader_info.setdefault(key, self.info.get(key)) of lines 389-390
SetDefault(self, config, key) ==
    IF config[key] # None THEN config[key] ELSE self.info[key]

\* _read_reader_config with the sensors and the times of the reader_info
ReadConfig(self, config) ==
    LET reader_info == _read_reader_config(config)
    IN  IF reader_info.status # "ok" THEN reader_info
        ELSE Return([name |-> reader_info.value.name,
                     file_patterns |-> reader_info.value.file_patterns,
                     filenames |-> reader_info.value.filenames,
                     sensor |-> config.sensor,
                     start_time |-> SetDefault(self, config, "start_time"),
                     end_time |-> SetDefault(self, config, "end_time")])

\* a generator or a call that ends with an exception
Failed(yielded, exc, events) ==
    [yielded |-> yielded, status |-> exc, log |-> events]

\* if filenames: of a list that may be None
Truthy(filenames) == filenames # None /\ Val(filenames) # <<>>

\* the reader_info with the filenames
WithFilenames(reader_info, filenames) ==
    [reader_info EXCEPT !.filenames = filenames]

\* what the finder does with one configuration of the sensor: it raises,
\* yields a reader or continues; filenames are the files still to match
Step(do, exc, made, filenames, events) ==
    [do |-> do, exc |-> exc, made |-> made, filenames |-> filenames,
     events |-> events]

\* mutant of SensorBody: a reader is made of a configuration also when no
\* file is found for it
SensorBodyLoadsEmpty(self, config, reader_info, filenames) ==
    IF Truthy(filenames)
    THEN LET a == assign_matching_files(reader_info, Val(filenames))
         IN  IF a.files # <<>>
             THEN Step("raise", "IOError", <<>>, Some(a.files),
                       <<Event("assign", config, a.filenames)>>)
             ELSE Step("yield", "ok",
                       <<_load_reader(WithFilenames(reader_info, a.filenames))>>,
                       Some(a.files),
                       <<Event("assign", config, a.filenames),
                         Event("load", config, a.filenames)>>)
    ELSE LET found == get_filenames(self, reader_info)
         IN  IF found.status # "ok"
             THEN Step("raise", found.status, <<>>, filenames,
                       <<Event("get_filenames", config, <<>>)>>)
             ELSE Step("yield", "ok",
                       <<_load_reader(WithFilenames(reader_info, found.value))>>,
                       filenames,
                       <<Event("get_filenames", config, <<>>),
                         Event("discover", config, found.value),
                         Event("load", config, found.value)>>)

\* lines 244-255: the configuration is wanted for the sensor
SensorBody(self, config, reader_info, filenames) ==
    IF Truthy(filenames)
    THEN LET a == assign_matching_files(reader_info, Val(filenames))
         IN  IF a.files # <<>>
             THEN Step("raise", "IOError", <<>>, Some(a.files),
                       <<Event("assign", config, a.filenames)>>)
             ELSE Step("yield", "ok",
                       <<_load_reader(WithFilenames(reader_info, a.filenames))>>,
                       Some(a.files),
                       <<Event("assign", config, a.filenames),
                         Event("load", config, a.filenames)>>)
    ELSE LET found == get_filenames(self, reader_info)
         IN  IF found.status # "ok"
             THEN Step("raise", found.status, <<>>, filenames,
                       <<Event("get_filenames", config, <<>>)>>)
             ELSE IF found.value = <<>>
             THEN Step("continue", "ok", <<>>, filenames,
                       <<Event("get_filenames", config, <<>>),
                         Event("discover", config, found.value)>>)
             ELSE Step("yield", "ok",
                       <<_load_reader(WithFilenames(reader_info, found.value))>>,
                       filenames,
                       <<Event("get_filenames", config, <<>>),
                         Event("discover", config, found.value),
                         Event("load", config, found.value)>>)

\* mutant of SensorLoop: an invalid configuration ends the generator with
\* its ValueError
RECURSIVE SensorLoopStrict(_, _, _, _, _, _)
SensorLoopStrict(self, configs, reader_names, sensor_set, filenames, yielded) ==
    IF configs = <<>> THEN [yielded |-> yielded, status |-> "ok", log |-> <<>>]
    ELSE LET config == Head(configs)
             reader_info == ReadConfig(self, config)
         IN  IF config.config_fn \in reader_names
             THEN SensorLoopStrict(self, Tail(configs), reader_names,
                                   sensor_set, filenames, yielded)
             ELSE IF reader_info.status # "ok"
             THEN Failed(yielded, "ValueError",
                         <<Event("invalid", config, <<>>)>>)
             ELSE IF reader_info.value.sensor \cap sensor_set = {}
             THEN Logged(<<Event("read", config, <<>>)>>,
                         SensorLoopStrict(self, Tail(configs),
                             reader_names \cup {config.config_fn},
                             sensor_set, filenames, yielded))
             ELSE LET s == SensorBody(self, config, reader_info.value, filenames)
                      events == <<Event("read", config, <<>>)>> \o s.events
                  IN  IF s.do = "raise" THEN Failed(yielded, s.exc, events)
                      ELSE Logged(events,
                                  SensorLoopStrict(self, Tail(configs),
                                      reader_names \cup {config.config_fn},
                                      sensor_set, s.filenames,
                                      yielded \o s.made))

\* lines 226-255: the loop over the configurations
RECURSIVE SensorLoop(_, _, _, _, _, _)
SensorLoop(self, configs, reader_names, sensor_set, filenames, yielded) ==
    IF configs = <<>> THEN [yielded |-> yielded, status |-> "ok", log |-> <<>>]
    ELSE LET config == Head(configs)
             reader_info == ReadConfig(self, config)
         IN  IF config.config_fn \in reader_names
             THEN SensorLoop(self, Tail(configs), reader_names, sensor_set,
                             filenames, yielded)
             ELSE IF reader_info.status # "ok"
             THEN Logged(<<Event("invalid", config, <<>>)>>,
                         SensorLoop(self, Tail(configs), reader_names,
                                    sensor_set, filenames, yielded))
             ELSE IF reader_info.value.sensor \cap sensor_set = {}
             THEN Logged(<<Event("read", config, <<>>)>>,
                         SensorLoop(self, Tail(configs),
                                    reader_names \cup {config.config_fn},
                                    sensor_set, filenames, yielded))
             ELSE LET s == SensorBody(self, config, reader_info.value, filenames)
                      events == <<Event("read", config, <<>>)>> \o s.events
                  IN  IF s.do = "raise" THEN Failed(yielded, s.exc, events)
                      ELSE Logged(events,
                                  SensorLoop(self, Tail(configs),
                                      reader_names \cup {config.config_fn},
                                      sensor_set, s.filenames,
                                      yielded \o s.made))

\* sensor is the set of the sensors asked for (lines 220-223)
_find_sensors_readers(self, sensor, filenames) ==
    SensorLoop(self, self.configs, {}, sensor, filenames, <<>>)

\* config_search_paths: the configurations of the name
SearchPaths(self, config_fn) ==
    SelectSeq(self.configs, LAMBDA config : config.config_fn = config_fn)

\* mutant of FindNamed: the reader is made of the configuration whatever
\* files it has
FindNamedLoadsAnyway(self, config, filenames) ==
    LET reader_info == ReadConfig(self, config)
        read == <<Event("read", config, <<>>)>>
    IN  IF reader_info.status # "ok"
        THEN Failed(<<>>, "ValueError", <<Event("invalid", config, <<>>)>>)
        ELSE IF Truthy(filenames)
        THEN LET a == assign_matching_files(reader_info.value, Val(filenames))
                 events == read \o <<Event("assign", config, a.filenames)>>
             IN  IF a.files # <<>> THEN Failed(<<>>, "IOError", events)
                 ELSE [yielded |-> <<_load_reader(WithFilenames(reader_info.value,
                                                                a.filenames))>>,
                       status |-> "ok",
                       log |-> events \o <<Event("load", config, a.filenames)>>]
        ELSE LET found == get_filenames(self, reader_info.value)
                 events == read \o <<Event("get_filenames", config, <<>>)>>
             IN  IF found.status # "ok"
                 THEN Failed(<<>>, found.status, events)
                 ELSE [yielded |-> <<_load_reader(WithFilenames(reader_info.value,
                                                                found.value))>>,
                       status |-> "ok",
                       log |-> events
                               \o <<Event("discover", config, found.value),
                                    Event("load", config, found.value)>>]

\* lines 276-286: the reader of the configuration that was found
FindNamed(self, config, filenames) ==
    LET reader_info == ReadConfig(self, config)
        read == <<Event("read", config, <<>>)>>
    IN  IF reader_info.status # "ok"
        THEN Failed(<<>>, "ValueError", <<Event("invalid", config, <<>>)>>)
        ELSE IF Truthy(filenames)
        THEN LET a == assign_matching_files(reader_info.value, Val(filenames))
                 events == read \o <<Event("assign", config, a.filenames)>>
             IN  IF a.files # <<>> THEN Failed(<<>>, "IOError", events)
                 ELSE [yielded |-> <<_load_reader(WithFilenames(reader_info.value,
                                                                a.filenames))>>,
                       status |-> "ok",
                       log |-> events \o <<Event("load", config, a.filenames)>>]
        ELSE LET found == get_filenames(self, reader_info.value)
                 events == read \o <<Event("get_filenames", config, <<>>)>>
             IN  IF found.status # "ok"
                 THEN Failed(<<>>, found.status, events)
                 ELSE IF found.value = <<>>
                 THEN Failed(<<>>, "RuntimeError",
                             events \o <<Event("discover", config, found.value)>>)
                 ELSE [yielded |-> <<_load_reader(WithFilenames(reader_info.value,
                                                                found.value))>>,
                       status |-> "ok",
                       log |-> events
                               \o <<Event("discover", config, found.value),
                                    Event("load", config, found.value)>>]

\* reader is the name of a configuration, or a reader instance that is
\* returned as it is; the one reader found is the one yielded
_find_reader(self, reader_, filenames) ==
    IF reader_.type # "str"
    THEN [yielded |-> <<reader_.v>>, status |-> "ok", log |-> <<>>]
    ELSE IF SearchPaths(self, reader_.v) = <<>>
    THEN Failed(<<>>, "ValueError", <<>>)
    ELSE FindNamed(self, Head(SearchPaths(self, reader_.v)), filenames)

\* lines 209-215: what __call__ makes a list of
Find(self, filenames, sensor, reader_) ==
    IF reader_ # None THEN _find_reader(self, Val(reader_), filenames)
    ELSE IF sensor # None
    THEN _find_sensors_readers(self, Val(sensor), filenames)
    ELSE IF filenames # None THEN _find_files_readers(self, Val(filenames))
    ELSE [yielded |-> <<>>, status |-> "ok", log |-> <<>>]

__call__(self, filenames, sensor, reader_) ==
    ListOf(Find(self, filenames, sensor, reader_))

----------------------------------------------------------------------------
(* The finder called with a reader, a sensor or filenames, for every list  *)
(* of configurations, request and disk                                     *)

\* the configurations x.cfg and y.cfg: not readable, or of the sensor s or
\* t with the pattern A* or ?1 and, optionally, a start_time of their own
SensorConfigs ==
    {[config_fn |-> config_fn, valid |-> TRUE, file_patterns |-> file_patterns,
      sensor |-> sensor, start_time |-> start_time, end_time |-> None] :
        config_fn \in {"x.cfg", "y.cfg"},
        file_patterns \in {<<PatA>>, <<Pat1>>},
        sensor \in {{"s"}, {"t"}},
        start_time \in {None, Some(1)}}
    \cup {[config_fn |-> config_fn, valid |-> FALSE, file_patterns |-> <<>>,
           sensor |-> {}, start_time |-> None, end_time |-> None] :
             config_fn \in {"x.cfg", "y.cfg"}}

SensorConfigLists ==
    {cs \in Lists(SensorConfigs, MaxConfigs) :
        \A i, j \in 1 .. Len(cs) :
           cs[i].config_fn = cs[j].config_fn => cs[i] = cs[j]}

\* start_time and end_time of the request
Requests ==
    {[start_time |-> None, end_time |-> None],
     [start_time |-> Some(1), end_time |-> None],
     [start_time |-> Some(1), end_time |-> Some(2)]}

DiskFile(filename, start_time, end_time) ==
    [filename |-> filename, start_time |-> start_time, end_time |-> end_time]

\* what is on disk, in the order glob finds it: nothing, A1 of the times
\* 0 to 1, or B1 of the time 1 and A1 of the times 0 to 1, or A1 of the
\* time 3
Disks ==
    {<<>>,
     <<DiskFile(<<"A", "1">>, 0, Some(1))>>,
     <<DiskFile(<<"B", "1">>, 1, None), DiskFile(<<"A", "1">>, 0, Some(1))>>,
     <<DiskFile(<<"A", "1">>, 3, None)>>}

\* the filenames the finder is called with
Supplies ==
    {None} \cup {Some(fs) : fs \in Lists({<<"A", "1">>, <<"C", "A">>}, MaxFilenames)}

\* a reader instance
Instance == [name |-> "instance", filenames |-> <<>>]

InitFind ==
    /\ reader = NewReader(<<>>, <<>>, None, None, None)
    /\ datasets = <<>>
    /\ finder \in {[configs |-> cs, info |-> info, disk |-> disk] :
                      cs \in SensorConfigLists, info \in Requests, disk \in Disks}
    /\ call = NoCall

Called(op, filenames, sensor, reader_) ==
    [op |-> op,
     arg |-> [filenames |-> filenames, sensor |-> sensor, reader |-> reader_],
     ret |-> __call__(finder, filenames, sensor, reader_),
     log |-> Find(finder, filenames, sensor, reader_).log]

FindReader ==
    /\ call.op = "none"
    /\ \E filenames \in Supplies, sensor \in {None, Some({"s"})} :
          \/ \E name \in {"x.cfg", "z.cfg"} :
                call' = Called("reader", filenames, sensor,
                               Some(Obj("str", name)))
          \/ call' = Called("reader", filenames, sensor,
                            Some(Obj("reader", Instance)))
    /\ UNCHANGED <<reader, datasets, finder>>

FindSensorsReaders ==
    /\ call.op = "none"
    /\ \E filenames \in Supplies :
          call' = Called("sensor", filenames, Some({"s"}), None)
    /\ UNCHANGED <<reader, datasets, finder>>

FindFilesReaders ==
    /\ call.op = "none"
    /\ \E filenames \in Supplies :
          call' = Called("filenames", filenames, None, None)
    /\ UNCHANGED <<reader, datasets, finder>>

NextFind == FindReader \/ FindSensorsReaders \/ FindFilesReaders

SpecFind == InitFind /\ [][NextFind]_vars

\* every event of the log is one the finder logs
FindTypeOK ==
    call.op # "none" =>
       \A n \in 1 .. Len(call.log) :
          call.log[n].event \in {"read", "invalid", "assign", "get_filenames",
                                 "discover", "load"}

----------------------------------------------------------------------------
(* Claims about the finder, checked under SpecFind *)

Found == call.op # "none"

\* the events of the call about a configuration
EventsOf(config_fn) ==
    {n \in 1 .. Len(call.log) : call.log[n].config_fn = config_fn}

\* get_filenames returned no file (event n)
NothingDiscovered(n) ==
    /\ call.log[n].event = "discover"
    /\ call.log[n].filenames = <<>>

Loaded(config_fn) ==
    \E n \in EventsOf(config_fn) : call.log[n].event = "load"

\* the configuration was read, or was found invalid
TriedConfig(config_fn) ==
    \E n \in EventsOf(config_fn) : call.log[n].event \in {"read", "invalid"}

\* C21: when no file is discovered for a configuration of the sensor, no
\* reader is made of it, it is not what makes the call fail, and the
\* configurations after it are tried; when no file is discovered for the
\* reader that is named, the call raises RuntimeError and returns no reader
C21_EmptySkippedOrFatal ==
    /\ call.op = "sensor" =>
          \A n \in 1 .. Len(call.log) :
             NothingDiscovered(n) =>
                /\ ~Loaded(call.log[n].config_fn)
                /\ call.ret.status # "ok" =>
                      call.log[Len(call.log)].config_fn # call.log[n].config_fn
                /\ call.ret.status = "ok" =>
                      \A i \in 1 .. Len(finder.configs) :
                         TriedConfig(finder.configs[i].config_fn)
    /\ call.op = "reader" =>
          \A n \in 1 .. Len(call.log) :
             NothingDiscovered(n) => call.ret = Raise("RuntimeError")

\* x.cfg of the sensor has no file on disk, and the reader of y.cfg is
\* returned
C21_Witness ==
    /\ call.op = "sensor"
    /\ \E n \in 1 .. Len(call.log) :
          /\ NothingDiscovered(n)
          /\ call.log[n].config_fn = "x.cfg"
    /\ call.ret.status = "ok"
    /\ Len(call.ret.value) = 1
    /\ call.ret.value[1].name = "y.cfg"

\* the reader that is named has no file on disk
C21_NamedWithoutFiles ==
    /\ call.op = "reader"
    /\ \E n \in 1 .. Len(call.log) : NothingDiscovered(n)

\* the configuration of the name
ConfigOf(config_fn) ==
    finder.configs[CHOOSE i \in 1 .. Len(finder.configs) :
                      finder.configs[i].config_fn = config_fn]

\* neither the configuration nor the request has a start_time
NoStartTime(config_fn) ==
    /\ ConfigOf(config_fn).start_time = None
    /\ finder.info.start_time = None

\* C22: when get_filenames is called for a configuration and neither the
\* configuration nor the request has a start_time, the call of the finder
\* raises ValueError there: get_filenames returns no list, and its event is
\* the last one
C22_NoStartTimeRaises ==
    Found =>
       \A n \in 1 .. Len(call.log) :
          (call.log[n].event = "get_filenames" /\ NoStartTime(call.log[n].config_fn))
             => /\ n = Len(call.log)
                /\ call.ret = Raise("ValueError")
                /\ get_filenames(finder,
                       ReadConfig(finder, ConfigOf(call.log[n].config_fn)).value)
                      = Raise("ValueError")

\* a file of the pattern is on disk, and get_filenames is called for the
\* sensor without start_time
C22_Witness ==
    /\ call.op = "sensor"
    /\ finder.disk # <<>>
    /\ \E n \in 1 .. Len(call.log) :
          /\ call.log[n].event = "get_filenames"
          /\ NoStartTime(call.log[n].config_fn)

\* the configuration is found invalid (event n)
FoundInvalid(n) == call.log[n].event = "invalid"

\* the reader asked for by name has no configuration that can be read
NamedMalformed ==
    /\ call.op = "reader"
    /\ call.arg.reader[1].type = "str"
    /\ \A i \in 1 .. Len(finder.configs) :
          finder.configs[i].config_fn = call.arg.reader[1].v
             => ~finder.configs[i].valid

\* C23 as stated: in every mode a configuration found invalid ends the call
\* of the finder with its error
C23_MalformedIsFatal ==
    Found =>
       \A n \in 1 .. Len(call.log) :
          FoundInvalid(n) => n = Len(call.log) /\ call.ret = Raise("ValueError")

\* C23: a reader asked for by name whose configuration cannot be read makes
\* the call raise ValueError; for a sensor or for filenames a configuration
\* found invalid is passed over: no reader is made of it, the next
\* configuration is tried, and when it was the last one the call does not
\* raise ValueError
C23_FatalByNameOnly ==
    /\ NamedMalformed => call.ret = Raise("ValueError")
    /\ call.op \in {"sensor", "filenames"} =>
          \A n \in 1 .. Len(call.log) :
             FoundInvalid(n) =>
                /\ ~Loaded(call.log[n].config_fn)
                /\ n < Len(call.log) =>
                      call.log[n + 1].event \in {"read", "invalid"}
                /\ n = Len(call.log) => call.ret.status # "ValueError"

\* x.cfg is found invalid, and the reader of y.cfg is returned for the sensor
C23_Witness ==
    /\ call.op = "sensor"
    /\ \E n \in 1 .. Len(call.log) :
          FoundInvalid(n) /\ call.log[n].config_fn = "x.cfg"
    /\ call.ret.status = "ok"
    /\ Len(call.ret.value) = 1
    /\ call.ret.value[1].name = "y.cfg"

\* the reader asked for by name has an invalid configuration
C23_NamedInvalid ==
    NamedMalformed /\ \E n \in 1 .. Len(call.log) : FoundInvalid(n)

\* the reader_info of the configuration has the filenames (event n)
FilesAssigned(n) ==
    /\ call.log[n].event \in {"assign", "discover"}
    /\ call.log[n].filenames # <<>>

\* the events of readers made
Loads == {n \in 1 .. Len(call.log) : call.log[n].event = "load"}

\* the readers the finder made are the ones it returns
ReturnsLoaded ==
    (call.ret.status = "ok" /\ call.ret.value # <<Instance>>)
       => Len(call.ret.value) = Cardinality(Loads)

\* C26: in every mode a reader is made of a configuration only after the
\* configuration was read, and then a non-empty list of filenames, the one
\* the reader is made with, was assigned to it or discovered for it; no
\* reader is made of a configuration found invalid, and none after an event
\* about it that is not the assignment or discovery of files
C26_LoadAfterReadAndFiles ==
    Found =>
       /\ \A n \in Loads :
             /\ n > 2
             /\ FilesAssigned(n - 1)
             /\ call.log[n - 1].config_fn = call.log[n].config_fn
             /\ call.log[n - 1].filenames = call.log[n].filenames
             /\ \E m \in 1 .. n - 2 :
                   /\ call.log[m].event = "read"
                   /\ call.log[m].config_fn = call.log[n].config_fn
       /\ \A n \in 1 .. Len(call.log) :
             FoundInvalid(n) => ~Loaded(call.log[n].config_fn)
       /\ ReturnsLoaded

\* the readers of x.cfg and of y.cfg are made of files discovered for the
\* sensor
C26_Witness ==
    /\ call.op = "sensor"
    /\ call.ret.status = "ok"
    /\ Len(call.ret.value) = 2
    /\ Loaded("x.cfg")
    /\ Loaded("y.cfg")

\* the elements of a list
Elements(s) == {s[n] : n \in 1 .. Len(s)}

\* C28: when the finder is called for a sensor with a non-empty list of
\* filenames, get_filenames is called for no configuration, and every
\* reader made has only files of the list
C28_SuppliedFilesOnly ==
    (call.op = "sensor" /\ Truthy(call.arg.filenames)) =>
       \A n \in 1 .. Len(call.log) :
          /\ call.log[n].event # "get_filenames"
          /\ call.log[n].event = "load" =>
                Elements(call.log[n].filenames)
                   \subseteq Elements(Val(call.arg.filenames))

----------------------------------------------------------------------------
(* Claims about the times of a MultiFileReader, checked under SpecReader *)

\* the granules of the MultiFileReader that was asked
Asked == reader.file_readers[call.arg].file_readers

\* the granules are in ascending order of start time
Ascending(file_readers) ==
    \A i, j \in 1 .. Len(file_readers) :
       i <= j => file_readers[i].start_time <= file_readers[j].start_time

\* C30: of granules in ascending order of start time, the start_time of the
\* MultiFileReader is not after the start_time of any granule, and its
\* end_time is not before the end_time of any granule
C30_TimesCoverGranules ==
    /\ (call.op = "start_time" /\ Ascending(Asked)) =>
          \A i \in 1 .. Len(Asked) : call.ret.value <= Asked[i].start_time
    /\ (call.op = "end_time" /\ Ascending(Asked)) =>
          \A i \in 1 .. Len(Asked) : call.ret.value >= Asked[i].end_time

----------------------------------------------------------------------------
(* Claims about the numbers of granules, checked under SpecReader *)

\* the granules the filter keeps of the bucket at position b
KeptOf(b) ==
    _get_swathsegment(reader,
        identify_file_types(reader, reader.filenames).file_types[b].readers)

Buckets == 1 .. Len(identify_file_types(reader, reader.filenames).file_types)

\* C29: after the construction succeeds, the MultiFileReaders of all file
\* types hold the same number of granules; the construction fails when the
\* filter keeps no granule of a file type, or keeps different numbers of
\* granules of two file types
C29_SameNumberOfGranules ==
    /\ reader.state = "ready" =>
          \A a, b \in DOMAIN reader.file_readers :
             Len(reader.file_readers[a].file_readers)
                = Len(reader.file_readers[b].file_readers)
    /\ (/\ reader.state # "new"
        /\ \A b \in Buckets : KeptOf(b).status = "ok"
        /\ \/ \E b \in Buckets : KeptOf(b).value = <<>>
           \/ \E a, b \in Buckets : Len(KeptOf(a).value) # Len(KeptOf(b).value))
          => reader.state = "failed"

\* the second half of C29 alone: what the filter keeps decides
C29_FilteredCountsDecide ==
    (/\ reader.state # "new"
     /\ \A b \in Buckets : KeptOf(b).status = "ok"
     /\ \/ \E b \in Buckets : KeptOf(b).value = <<>>
        \/ \E a, b \in Buckets : Len(KeptOf(a).value) # Len(KeptOf(b).value))
       => reader.state = "failed"

----------------------------------------------------------------------------
(* MultiFileReader.load_metadata *)

(* file_reader[item] is abstract: a per-file reader has a value for the    *)
(* item, here a list of numbers, or raises KeyError.  meta maps an item to *)
(* Some(value) or to None when the file has no such item.  reads is the    *)
(* list of the granules whose value was read, in the order of the reads.   *)

\* the join methods load_metadata knows (line 1162)
JoinMethods == {"append", "extend_granule", "append_granule", "first"}

MetadataResult(ret, reads) == [ret |-> ret, reads |-> reads]

\* tuple(fr[item] for fr in self.file_readers): the values read, until a
\* per-file reader raises
RECURSIVE ItemLoop(_, _, _, _)
ItemLoop(file_readers, item, n, values) ==
    IF n > Len(file_readers)
    THEN MetadataResult(Return(values), [i \in 1 .. Len(file_readers) |-> i])
    ELSE IF file_readers[n].meta[item] = None
    THEN MetadataResult(Raise("KeyError"), [i \in 1 .. n |-> i])
    ELSE ItemLoop(file_readers, item, n + 1,
                  Append(values, Val(file_readers[n].meta[item])))

RECURSIVE Flat(_)
Flat(arrays) ==
    IF arrays = <<>> THEN <<>> ELSE Head(arrays) \o Flat(Tail(arrays))

\* np.concatenate(arrays, axis=0) of lists of numbers; no array to
\* concatenate is a ValueError
concatenate(arrays) ==
    IF arrays = <<>> THEN Raise("ValueError") ELSE Return(Flat(arrays))

\* np.concatenate(([v1], [v2], ...), axis=0): the rows v1, v2, ... must have
\* one length
concatenate_rows(arrays) ==
    IF arrays = <<>> THEN Raise("ValueError")
    ELSE IF \E i, j \in 1 .. Len(arrays) : Len(arrays[i]) # Len(arrays[j])
    THEN Raise("ValueError")
    ELSE Return(arrays)

\* mutant of load_metadata: a join method that is not known is taken as
\* the default, append
load_metadata_default(self, item, join_method) ==
    LET read == ItemLoop(self.file_readers, item, 1, <<>>)
    IN  IF join_method = "append_granule"
        THEN IF read.ret.status # "ok" THEN read
             ELSE MetadataResult(concatenate_rows(read.ret.value), read.reads)
        ELSE IF join_method = "first"
        THEN IF self.file_readers = <<>> THEN MetadataResult(Raise("IndexError"), <<>>)
             ELSE IF self.file_readers[1].meta[item] = None
             THEN MetadataResult(Raise("KeyError"), <<1>>)
             ELSE MetadataResult(Return(Val(self.file_readers[1].meta[item])), <<1>>)
        ELSE IF read.ret.status # "ok" THEN read
             ELSE MetadataResult(concatenate(read.ret.value), read.reads)

\* load_metadata(item, join_method) with the default axis, 0
load_metadata(self, item, join_method) ==
    LET read == ItemLoop(self.file_readers, item, 1, <<>>)
    IN  IF join_method \notin JoinMethods
        THEN MetadataResult(Raise("ValueError"), <<>>)
        ELSE IF join_method \in {"extend_granule", "append"}
        THEN IF read.ret.status # "ok" THEN read
             ELSE MetadataResult(concatenate(read.ret.value), read.reads)
        ELSE IF join_method = "append_granule"
        THEN IF read.ret.status # "ok" THEN read
             ELSE MetadataResult(concatenate_rows(read.ret.value), read.reads)
        ELSE IF self.file_readers = <<>> THEN MetadataResult(Raise("IndexError"), <<>>)
             ELSE IF self.file_readers[1].meta[item] = None
             THEN MetadataResult(Raise("KeyError"), <<1>>)
             ELSE MetadataResult(Return(Val(self.file_readers[1].meta[item])), <<1>>)

----------------------------------------------------------------------------
(* load_metadata of every list of granules *)

\* the most numbers in the value of an item
MaxValues == 2

Items == {"a", "b"}

\* the values of an item: the lists of at most MaxValues zeros
ItemValues == {[i \in 1 .. n |-> 0] : n \in 0 .. MaxValues}

\* the per-file readers: the i-th of the list is named i, and has a value or
\* none for every item
MetaGranules(n) ==
    {[i \in 1 .. n |-> [filename |-> i, meta |-> metas[i]]] :
        metas \in [1 .. n -> [Items -> {None} \cup {Some(v) : v \in ItemValues}]]}

\* join methods of a call: the ones known, and others
AnyJoinMethods == JoinMethods \cup {"", "Append", "last"}

InitMetadata ==
    /\ \E n \in 0 .. MaxGranules :
          \E file_readers \in MetaGranules(n) : reader = ReaderOf(file_readers)
    /\ datasets = <<>>
    /\ finder = None
    /\ call = NoCall

LoadMetadata ==
    /\ call.op = "none"
    /\ \E item \in Items, join_method \in AnyJoinMethods :
          LET done == load_metadata(reader.file_readers["data"], item, join_method)
          IN  call' = [op |-> "load_metadata", arg |-> <<item, join_method>>,
                       ret |-> done.ret, reads |-> done.reads]
    /\ UNCHANGED <<reader, datasets, finder>>

NextMetadata == LoadMetadata

SpecMetadata == InitMetadata /\ [][NextMetadata]_vars

\* C24: load_metadata with a join method other than append, append_granule,
\* extend_granule and first raises ValueError and has read the value of no
\* granule, for every item and every list of granules
C24_UnknownJoinRaises ==
    (call.op = "load_metadata" /\ call.arg[2] \notin JoinMethods) =>
       /\ call.ret = Raise("ValueError")
       /\ call.reads = <<>>

\* the join method last is asked of two granules that have the item
C24_Witness ==
    /\ call.op = "load_metadata"
    /\ call.arg = <<"a", "last">>
    /\ Len(reader.file_readers["data"].file_readers) = 2
    /\ \A i \in 1 .. 2 :
          reader.file_readers["data"].file_readers[i].meta["a"] # None

\* the join method last is asked of no granule
C24_WitnessEmpty ==
    /\ call.op = "load_metadata"
    /\ call.arg = <<"a", "last">>
    /\ reader.file_readers["data"].file_readers = <<>>

----------------------------------------------------------------------------
(* Reader.get_dataset_key *)

(* self.datasets is the registry of the configured datasets; its keys are  *)
(* DatasetIDs.  key is a number, a DatasetID or a name (Obj); calibration, *)
(* resolution and polarization are None or Some list of accepted values.   *)

\* x in s of a list
In(x, s) == \E n \in 1 .. Len(s) : s[n] = x

\* abs(ch.wavelength[1] - key)
CentreOff(ch, key) ==
    IF ch.wavelength.v[2] >= key THEN ch.wavelength.v[2] - key
    ELSE key - ch.wavelength.v[2]

RECURSIVE InsertByCentre(_, _, _)
InsertByCentre(s, ch, key) ==
    IF s = <<>> THEN <<ch>>
    ELSE IF CentreOff(ch, key) < CentreOff(Head(s), key) THEN <<ch>> \o s
    ELSE <<Head(s)>> \o InsertByCentre(Tail(s), ch, key)

\* sorted(datasets, key=lambda ch: abs(ch.wavelength[1] - key)), stable
RECURSIVE SortedByCentre(_, _)
SortedByCentre(s, key) ==
    IF s = <<>> THEN <<>>
    ELSE InsertByCentre(SortedByCentre(SubSeq(s, 1, Len(s) - 1), key),
                        s[Len(s)], key)

\* lines 596-600: the datasets whose wavelength interval has the number
ByWavelength(ids, key) ==
    LET has(ds) == /\ ds.wavelength.type # "NoneType"
                   /\ ds.wavelength.v[1] <= key
                   /\ key <= ds.wavelength.v[3]
        found == SortedByCentre(SelectSeq(ids, has), key)
    IN  IF found = <<>> THEN Raise("KeyError") ELSE Return(found)

\* lines 617-619: the datasets of the name; key is not a string when the
\* wavelength of a DatasetID, an interval, is looked up, and equals no name
ByName(ids, key) ==
    LET named(ds_id) == key.type = "str" /\ ds_id.name = Some(key.v)
        found == SelectSeq(ids, named)
    IN  IF found = <<>> THEN Raise("KeyError") ELSE Return(found)

\* line 629: the calibrations asked for, from the highest level to the lowest
Ordered(calibration) ==
    SelectSeq(<<"brightness_temperature", "reflectance", "radiance", "counts">>,
              LAMBDA x : In(x, calibration))

\* lines 621-639
Narrow(found, calibration, resolution, polarization, aslist) ==
    LET cal == IF calibration = None
               THEN <<"brightness_temperature", "reflectance">>
               ELSE Val(calibration)
        by_res(ds_id) == resolution = None \/ In(ds_id.resolution, Val(resolution))
        by_cal(ds_id) == \/ ds_id.calibration = None
                         \/ In(Val(ds_id.calibration), Ordered(cal))
        by_pol(ds_id) ==
            polarization = None \/ In(ds_id.polarization, Val(polarization))
        left == SelectSeq(SelectSeq(SelectSeq(found, by_res), by_cal), by_pol)
    IN  IF left = <<>> THEN Raise("KeyError")
        ELSE IF aslist THEN Return(left)
        ELSE Return(left[1])

\* get_dataset_key(key, aslist=True) of a name or a wavelength
get_dataset_key_aslist(ids, key) ==
    LET found == IF key.type = "float" THEN ByWavelength(ids, key.v[1])
                 ELSE ByName(ids, key)
    IN  IF found.status # "ok" THEN found
        ELSE Narrow(found.value, None, None, None, TRUE)

\* lines 601-614: the fields of the key replace the keyword arguments that
\* are given
get_dataset_key(self, key, calibration, resolution, polarization, aslist) ==
    LET ids == keys(self)
    IN  IF key.type = "DatasetID"
        THEN LET found ==
                     IF key.v.name # None
                     THEN get_dataset_key_aslist(ids, Obj("str", Val(key.v.name)))
                     ELSE IF key.v.wavelength.type # "NoneType"
                     THEN get_dataset_key_aslist(ids, key.v.wavelength)
                     ELSE Raise("KeyError")
             IN  IF found.status # "ok" THEN found
                 ELSE Narrow(found.value,
                             IF calibration # None
                             THEN Some(IF key.v.calibration = None THEN <<>>
                                       ELSE <<Val(key.v.calibration)>>)
                             ELSE calibration,
                             IF resolution # None
                             THEN Some(<<key.v.resolution>>) ELSE resolution,
                             IF polarization # None
                             THEN Some(<<key.v.polarization>>) ELSE polarization,
                             aslist)
        ELSE LET found == IF key.type = "float" THEN ByWavelength(ids, key.v[1])
                          ELSE ByName(ids, key)
             IN  IF found.status # "ok" THEN found
                 ELSE Narrow(found.value, calibration, resolution,
                             polarization, aslist)

----------------------------------------------------------------------------
(* get_dataset_key on every registry of configured datasets *)

\* the most datasets of the configuration
MaxKeys == 2

\* the datasets load_section_dataset registers (lines 567-583): the
\* permutations of dataset a, of the wavelength 0 to 1
ConfiguredIDs ==
    {DatasetID(Some("a"), Band1, Some(resolution), polarization, calibration) :
        resolution \in {1, 2},
        polarization \in {None, Some("V")},
        calibration \in {None, Some("radiance"), Some("reflectance")}}

\* the registries of n datasets
RECURSIVE Configured(_)
Configured(n) ==
    IF n = 0 THEN {<<>>}
    ELSE UNION {{Append(self, [key |-> ds_id, value |-> [id |-> ds_id]]) :
                    ds_id \in {id \in ConfiguredIDs :
                                 \A i \in 1 .. Len(self) : self[i].key # id}} :
                self \in Configured(n - 1)}

\* the DatasetIDs asked for: by name or by a number as wavelength
QueryIDs ==
    {DatasetID(name_wl[1], name_wl[2], resolution, polarization, calibration) :
        name_wl \in {<<Some("a"), NoWl>>, <<None, Wl("float", <<1>>)>>,
                     <<None, NoWl>>},
        resolution \in {None, Some(1), Some(2)},
        polarization \in {None, Some("V")},
        calibration \in {None, Some("radiance"), Some("reflectance")}}

InitKey ==
    /\ reader = NewReader(<<>>, <<>>, None, None, None)
    /\ \E n \in 0 .. MaxKeys : datasets \in Configured(n)
    /\ finder = None
    /\ call = NoCall

KeyCalled(key, calibration, resolution, polarization, aslist) ==
    [op |-> "get_dataset_key",
     arg |-> [key |-> key, calibration |-> calibration,
              resolution |-> resolution, polarization |-> polarization,
              aslist |-> aslist],
     ret |-> get_dataset_key(datasets, key, calibration, resolution,
                             polarization, aslist)]

GetDatasetKey ==
    /\ call.op = "none"
    /\ \E calibration \in {None, Some(<<"radiance">>)},
          resolution \in {None, Some(<<Some(1)>>)},
          polarization \in {None, Some(<<Some("V")>>)},
          aslist \in BOOLEAN :
          \/ \E did \in QueryIDs :
                call' = KeyCalled(Obj("DatasetID", did), calibration,
                                  resolution, polarization, aslist)
          \/ call' = KeyCalled(Obj("str", "a"), calibration, resolution,
                               polarization, aslist)
          \/ call' = KeyCalled(Wl("float", <<1>>), calibration, resolution,
                               polarization, aslist)
    /\ UNCHANGED <<reader, datasets, finder>>

NextKey == GetDatasetKey

SpecKey == InitKey /\ [][NextKey]_vars

----------------------------------------------------------------------------
(* Claims about get_dataset_key, checked under SpecKey *)

\* the ids get_dataset_key returned
ReturnedIDs == IF call.arg.aslist THEN call.ret.value ELSE <<call.ret.value>>

\* C27: get_dataset_key of a DatasetID returns only ids that have the
\* resolution, the calibration and the polarization of the query, for each
\* of these that the query has, whatever the keyword arguments are
C27_QueryFieldsKept ==
    (/\ call.op = "get_dataset_key"
     /\ call.arg.key.type = "DatasetID"
     /\ call.ret.status = "ok") =>
       \A n \in 1 .. Len(ReturnedIDs) :
          \A field \in {"resolution", "calibration", "polarization"} :
             call.arg.key.v[field] # None =>
                ReturnedIDs[n][field] = call.arg.key.v[field]

\* the same with the three keyword arguments given
C27_WithKeywords ==
    (/\ call.op = "get_dataset_key"
     /\ call.arg.key.type = "DatasetID"
     /\ call.arg.calibration # None
     /\ call.arg.resolution # None
     /\ call.arg.polarization # None
     /\ call.ret.status = "ok") =>
       \A n \in 1 .. Len(ReturnedIDs) :
          \A field \in {"resolution", "calibration", "polarization"} :
             call.arg.key.v[field] # None =>
                ReturnedIDs[n][field] = call.arg.key.v[field]

----------------------------------------------------------------------------
(* ConfigBasedReader.load *)

(* self has the registry of the configured datasets (self.datasets), the   *)
(* MultiFileReaders by file type, and the calibrations and navigations of  *)
(* the configuration.  order is the order in which the set                 *)
(* datasets_to_load is iterated.  load is called without metadata, so      *)
(* load_metadata returns no metadata (lines 954-955).                      *)

\* lines 798-805: the navigation is read with the MultiFileReader of its
\* file type; the interpolation and the SwathDefinition are taken to succeed
load_navigation(self, nav_name) ==
    LET file_type == self.navigations[nav_name].file_type
    IN  IF file_type \notin DOMAIN self.file_readers THEN Raise("KeyError")
        ELSE LET gross == get_swath_data(self.file_readers[file_type], TRUE)
             IN  IF gross.status # "ok" THEN gross ELSE Return(nav_name)

\* lines 1026-1034: the file type of the calibration section, or of the
\* dataset
FileTypeOf(self, dataset_info) ==
    IF /\ dataset_info.calibration # None
       /\ Val(dataset_info.calibration) \in DOMAIN self.calibrations
    THEN self.calibrations[Val(dataset_info.calibration)].file_type
    ELSE dataset_info.file_type

\* mutant of LoadLoop: a dataset whose file type has no MultiFileReader is
\* an error
RECURSIVE LoadLoopStrict(_, _, _, _)
LoadLoopStrict(self, configured, order, datasets_loaded) ==
    IF order = <<>> THEN Return(datasets_loaded)
    ELSE LET dataset_info == __getitem__(configured, Obj("DatasetID", Head(order)))
         IN  IF dataset_info.status # "ok" THEN dataset_info
             ELSE LET file_type == FileTypeOf(self, dataset_info.value)
                  IN  IF file_type \notin DOMAIN self.file_readers
                      THEN Raise("KeyError")
                      ELSE LET data == get_swath_data(self.file_readers[file_type], TRUE)
                               area == load_navigation(self, dataset_info.value.navigation)
                               stored == __setitem__(datasets_loaded,
                                             Obj("DatasetID", dataset_info.value.id),
                                             dataset_info.value)
                           IN  IF data.status # "ok" THEN data
                               ELSE IF area.status # "ok" THEN area
                               ELSE IF stored.ret.status # "ok" THEN stored.ret
                               ELSE LoadLoopStrict(self, configured, Tail(order),
                                                   stored.self)

\* lines 1019-1066: the loop over the datasets to load
RECURSIVE LoadLoop(_, _, _, _)
LoadLoop(self, configured, order, datasets_loaded) ==
    IF order = <<>> THEN Return(datasets_loaded)
    ELSE LET dataset_info == __getitem__(configured, Obj("DatasetID", Head(order)))
         IN  IF dataset_info.status # "ok" THEN dataset_info
             ELSE LET file_type == FileTypeOf(self, dataset_info.value)
                  IN  IF file_type \notin DOMAIN self.file_readers
                      THEN LoadLoop(self, configured, Tail(order), datasets_loaded)
                      ELSE LET data == get_swath_data(self.file_readers[file_type], TRUE)
                               area == load_navigation(self, dataset_info.value.navigation)
                               stored == __setitem__(datasets_loaded,
                                             Obj("DatasetID", dataset_info.value.id),
                                             dataset_info.value)
                           IN  IF data.status # "ok" THEN data
                               ELSE IF area.status # "ok" THEN area
                               ELSE IF stored.ret.status # "ok" THEN stored.ret
                               ELSE LoadLoop(self, configured, Tail(order),
                                             stored.self)

\* set(datasets_to_load) & set(self.datasets.keys())
ToLoad(configured, datasets_to_load) ==
    datasets_to_load \cap {configured[i].key : i \in 1 .. Len(configured)}

\* the orders in which a set is iterated
Orders(S) ==
    {order \in [1 .. Cardinality(S) -> S] :
        \A i, j \in 1 .. Cardinality(S) : order[i] = order[j] => i = j}

\* load(datasets_to_load), the set iterated in the order
load(self, configured, datasets_to_load, order) ==
    IF ToLoad(configured, datasets_to_load) = {} THEN Return(<<>>)
    ELSE LoadLoop(self, configured, order, <<>>)

----------------------------------------------------------------------------
(* load of every set of datasets, for every configuration *)

\* the metadata of a configured dataset (lines 567-583)
DatasetInfo(id, file_type) ==
    [id |-> id, name |-> id.name, wavelength_range |-> None,
     resolution |-> id.resolution, polarization |-> id.polarization,
     calibration |-> id.calibration, file_type |-> file_type,
     navigation |-> "nav"]

\* the datasets of the configurations: a as reflectance and as radiance,
\* and b without calibration
LoadIDs ==
    {DatasetID(Some("a"), NoWl, Some(1), None, Some("reflectance")),
     DatasetID(Some("a"), NoWl, Some(1), None, Some("radiance")),
     DatasetID(Some("b"), NoWl, Some(2), None, None)}

\* a dataset of no configuration
Unconfigured == DatasetID(Some("c"), NoWl, Some(1), None, None)

FileTypeNames == {"A", "B"}

\* the registries of n configured datasets
RECURSIVE ConfiguredLoad(_)
ConfiguredLoad(n) ==
    IF n = 0 THEN {<<>>}
    ELSE UNION {{Append(self, [key |-> id, value |-> DatasetInfo(id, file_type)]) :
                    id \in {ds_id \in LoadIDs :
                              \A i \in 1 .. Len(self) : self[i].key # ds_id},
                    file_type \in FileTypeNames} :
                self \in ConfiguredLoad(n - 1)}

\* the reader: MultiFileReaders of one granule for some file types, no
\* calibration section or the section radiance with a file type, and the
\* navigation nav with a file type
LoadReaders ==
    {[file_readers |-> [file_type \in loaded |->
                           MultiFileReader(file_type, Granules(<<<<2, 1>>>>))],
      calibrations |-> calibrations,
      navigations |-> "nav" :> [file_type |-> nav_type]] :
        loaded \in SUBSET FileTypeNames,
        calibrations \in {<<>>} \cup {"radiance" :> [file_type |-> file_type] :
                                         file_type \in FileTypeNames},
        nav_type \in FileTypeNames}

InitLoad ==
    /\ reader \in LoadReaders
    /\ \E n \in 0 .. MaxKeys : datasets \in ConfiguredLoad(n)
    /\ finder = None
    /\ call = NoCall

Load ==
    /\ call.op = "none"
    /\ \E datasets_to_load \in SUBSET (LoadIDs \cup {Unconfigured}) :
          \E order \in Orders(ToLoad(datasets, datasets_to_load)) :
             call' = [op |-> "load",
                      arg |-> [datasets_to_load |-> datasets_to_load,
                               order |-> order],
                      ret |-> load(reader, datasets, datasets_to_load, order)]
    /\ UNCHANGED <<reader, datasets, finder>>

NextLoad == Load

SpecLoad == InitLoad /\ [][NextLoad]_vars

----------------------------------------------------------------------------
(* Claims about load, checked under SpecLoad *)

\* the configured metadata of a dataset of the registry
InfoOf(ds_id) == datasets[IndexOf(datasets, ds_id)].value

\* the datasets asked for that are configured and whose file type has a
\* MultiFileReader
Loadable ==
    {ds_id \in ToLoad(datasets, call.arg.datasets_to_load) :
        FileTypeOf(reader, InfoOf(ds_id)) \in DOMAIN reader.file_readers}

\* C25: the keys of the registry load returns are datasets asked for that
\* are configured, one entry for each dataset whose file type has a
\* MultiFileReader; load raises only when there is such a dataset and the
\* file type of the navigation has no MultiFileReader, so a dataset that is
\* not configured or whose file type has no MultiFileReader is absent and
\* raises nothing
C25_LoadedAreRequestedAndConfigured ==
    call.op = "load" =>
       /\ call.ret.status = "ok" =>
             /\ {call.ret.value[i].key : i \in 1 .. Len(call.ret.value)} = Loadable
             /\ Loadable \subseteq call.arg.datasets_to_load
             /\ Loadable \subseteq {datasets[i].key : i \in 1 .. Len(datasets)}
             /\ Len(call.ret.value) = Cardinality(Loadable)
       /\ call.ret.status # "ok" =>
             /\ Loadable # {}
             /\ reader.navigations["nav"].file_type \notin DOMAIN reader.file_readers
       /\ Loadable = {} => call.ret = Return(<<>>)

\* a reflectance is loaded; a radiance, whose file type B has no
\* MultiFileReader, and c, that is not configured, are asked for too
C25_Witness ==
    /\ call.op = "load"
    /\ call.arg.datasets_to_load
          = {DatasetID(Some("a"), NoWl, Some(1), None, Some("reflectance")),
             DatasetID(Some("a"), NoWl, Some(1), None, Some("radiance")),
             Unconfigured}
    /\ Len(datasets) = 2
    /\ DOMAIN reader.file_readers = {"A"}
    /\ call.ret.status = "ok"
    /\ Len(call.ret.value) = 1
    /\ call.ret.value[1].key
          = DatasetID(Some("a"), NoWl, Some(1), None, Some("reflectance"))

====
